---- MODULE Spec2Model ----
(***************************************************************************)
(* Clawlett: token swaps for a Safe through a Zodiac Roles modifier.       *)
(*                                                                         *)
(* Three swap scripts are modelled:                                        *)
(*   "basic"    src/claw-wallet/scripts/swap.js   (Aerodrome router)        *)
(*   "hardened" src/clawlett/scripts/swap.js:1     (Aerodrome universal     *)
(*              router through ZodiacHelpers, with preflight / validation) *)
(*   "cow"      src/clawlett/scripts/swap.js:556   (CoW presign orders)     *)
(*                                                                         *)
(* The text of the hardened script has lines missing (a guard whose throw  *)
(* is present, a parameter of a call).  Where the remaining text fixes the *)
(* reading, the definition follows it and says so; where it does not, the  *)
(* missing condition is an input chosen by the environment.                *)
(***************************************************************************)
EXTENDS Integers, Sequences, FiniteSets, TLC

VARIABLES
    variant,      \* which script runs
    args,         \* parseArgs(): the command line
    pc,           \* position of main()
    err,          \* "" or the failure the run ended with
    tokenIn,      \* resolved descriptors
    tokenOut,
    chain,        \* values read from the chain so far (balances, allowance)
    quote,        \* the quote obtained from the quote service
    minAmountOut,
    wrap,         \* cow: [ethSubstituted, wrapAmount]
    keyLoaded,    \* agent.pk has been read
    summaryShown, \* the swap summary has been printed
    txs,          \* transactions submitted by the agent key, in order
    http,         \* requests made to the quote / auction service, in order
    sims,         \* read-only simulations (staticCall) made
    order,        \* cow: [posted, uid, struct, state]
    poll,         \* cow: pollOrderStatus locals and the clock
    rv            \* token resolution harness: [variant, ref, sym, out, done]

vars == << variant, args, pc, err, tokenIn, tokenOut, chain, quote, minAmountOut,
           wrap, keyLoaded, summaryShown, txs, http, sims, order, poll, rv >>

flowVars == << variant, args, pc, err, tokenIn, tokenOut, chain, quote, minAmountOut,
               wrap, keyLoaded, summaryShown, txs, http, sims, order, poll >>

-----------------------------------------------------------------------------
(* Text: a symbol is a sequence of one-character strings.                  *)

lowerLetters == << "a","b","c","d","e","f","g","h","i","j","k","l","m",
                   "n","o","p","q","r","s","t","u","v","w","x","y","z" >>
upperLetters == << "A","B","C","D","E","F","G","H","I","J","K","L","M",
                   "N","O","P","Q","R","S","T","U","V","W","X","Y","Z" >>

toUpperChar(c) ==
    IF \E i \in DOMAIN lowerLetters : lowerLetters[i] = c
    THEN upperLetters[CHOOSE i \in DOMAIN lowerLetters : lowerLetters[i] = c]
    ELSE c

\* String.prototype.toUpperCase
toUpperCase(s) == [i \in DOMAIN s |-> toUpperChar(s[i])]

RECURSIVE trimStart(_)
trimStart(s) == IF s # << >> /\ Head(s) = " " THEN trimStart(Tail(s)) ELSE s

RECURSIVE trimEnd(_)
trimEnd(s) ==
    IF s # << >> /\ s[Len(s)] = " " THEN trimEnd(SubSeq(s, 1, Len(s) - 1)) ELSE s

\* String.prototype.trim
trim(s) == trimEnd(trimStart(s))

\* .replace(/^\$/, ''): one leading dollar sign is removed
stripSigil(s) == IF s # << >> /\ Head(s) = "$" THEN Tail(s) ELSE s

-----------------------------------------------------------------------------
(* Addresses, in lower case (the scripts compare addresses lower-cased).    *)

NATIVE_ETH   == "0x0000000000000000000000000000000000000000"
WETH_ADDRESS == "0x4200000000000000000000000000000000000006"
USDC_ADDRESS == "0x833589fcd6edb6e08f4c7c32d4f71b54bda02913"
USDT_ADDRESS == "0xfde4c96c8593536e31f229ea8f37b2ada2699bb2"
DAI_ADDRESS  == "0x50c5725949a6f0c72e6c4a641f24049a917db0cb"
USDS_ADDRESS == "0x820c137fa70c8691f0e44dc420a5e53c168921dc"
AERO_ADDRESS == "0x940181a94a35a4569e4529a3cdfb74e38fd98631"
CBBTC_ADDRESS == "0xcbb7c0000ab88b473b1f5afd9ef808440eed33bf"
VIRTUAL_ADDRESS == "0x0b3e328455c4059eeb9e3f84b5543f74e24e7e1b"
DEGEN_ADDRESS == "0x4ed4e862860bed51a9570b96d89af5e1b0efefed"
BRETT_ADDRESS == "0x532f27101965dd16442e59d40670faf5ebb142e4"
TOSHI_ADDRESS == "0xac1bd2486aaf3b5c0fc3fd868558b082a531b2b4"
WELL_ADDRESS == "0xa88594d404727625a9437c3f886c7643872296ae"
BID_ADDRESS  == "0xa1832f7f4e534ae557f9b5ab76de54b1873e498b"
\* an ERC20 contract that is in no registry
OTHER_ADDRESS == "0x1111111111111111111111111111111111111111"

sETH == << "E","T","H" >>
sWETH == << "W","E","T","H" >>
sUSDC == << "U","S","D","C" >>
sUSDT == << "U","S","D","T" >>
sDAI == << "D","A","I" >>
sUSDS == << "U","S","D","S" >>
sAERO == << "A","E","R","O" >>
scbBTC == << "c","b","B","T","C" >>
sCBBTC == << "C","B","B","T","C" >>
sVIRTUAL == << "V","I","R","T","U","A","L" >>
sDEGEN == << "D","E","G","E","N" >>
sBRETT == << "B","R","E","T","T" >>
sTOSHI == << "T","O","S","H","I" >>
sWELL == << "W","E","L","L" >>
sBID == << "B","I","D" >>
sETHEREUM == << "E","T","H","E","R","E","U","M" >>
sETHER == << "E","T","H","E","R" >>
sUSD_COIN == << "U","S","D"," ","C","O","I","N" >>
sTETHER == << "T","E","T","H","E","R" >>
sCBBTCTOKEN == << "C","B","B","T","C","T","O","K","E","N" >>

\* a key -> value table (a JS object literal) as a set of pairs
has(table, key) == \E p \in table : p[1] = key
lookup(table, key) == (CHOOSE p \in table : p[1] = key)[2]

\* the answer of a symbol() call that reverts
NoSymbol == << "<revert>" >>

\* a reference given on the command line: a symbol or a 42-character 0x address
SymRef(s)  == [isAddress |-> FALSE, text |-> s, address |-> ""]
AddrRef(a) == [isAddress |-> TRUE, text |-> << >>, address |-> a]

\* what a resolution returns (ok) or the error it throws
Descriptor(a, s, v, n, w) ==
    [ok |-> TRUE, error |-> "", address |-> a, symbol |-> s,
     verified |-> v, native |-> n, warning |-> w]
Thrown(e) ==
    [ok |-> FALSE, error |-> e, address |-> "", symbol |-> << >>,
     verified |-> FALSE, native |-> FALSE, warning |-> ""]
NoToken == Thrown("unresolved")

\* ERC20 symbol() of the pinned contracts on Base
deployedSymbols ==
           { << WETH_ADDRESS, sWETH >>, << USDC_ADDRESS, sUSDC >>,
             << USDT_ADDRESS, sUSDT >>, << DAI_ADDRESS, sDAI >>,
             << USDS_ADDRESS, sUSDS >>, << AERO_ADDRESS, sAERO >>,
             << CBBTC_ADDRESS, scbBTC >>, << VIRTUAL_ADDRESS, sVIRTUAL >>,
             << DEGEN_ADDRESS, sDEGEN >>, << BRETT_ADDRESS, sBRETT >>,
             << TOSHI_ADDRESS, sTOSHI >>, << WELL_ADDRESS, sWELL >>,
             << BID_ADDRESS, sBID >> }

\* symbol() read from address a; otherSym is what the contract outside the list
\* answers (NoSymbol: the call reverts, as it does where no contract is)
onChainSymbol(a, otherSym) ==
    IF has(deployedSymbols, a) THEN lookup(deployedSymbols, a)
    ELSE IF a = OTHER_ADDRESS THEN otherSym
    ELSE NoSymbol

-----------------------------------------------------------------------------
(* claw-wallet/scripts/swap.js: token resolution                           *)

VERIFIED_TOKENS ==
    { << sETH, WETH_ADDRESS >>, << sWETH, WETH_ADDRESS >>, << sUSDC, USDC_ADDRESS >>,
      << sUSDT, USDT_ADDRESS >>, << sDAI, DAI_ADDRESS >>, << sUSDS, USDS_ADDRESS >>,
      << sAERO, AERO_ADDRESS >>, << scbBTC, CBBTC_ADDRESS >>,
      << sVIRTUAL, VIRTUAL_ADDRESS >>, << sDEGEN, DEGEN_ADDRESS >>,
      << sBRETT, BRETT_ADDRESS >>, << sTOSHI, TOSHI_ADDRESS >>,
      << sWELL, WELL_ADDRESS >>, << sBID, BID_ADDRESS >> }

TOKEN_ALIASES ==
    { << sETHEREUM, sETH >>, << sETHER, sETH >>, << sUSD_COIN, sUSDC >>,
      << sTETHER, sUSDT >> }

PROTECTED_SYMBOLS == { sETH, sWETH, sUSDC, sUSDT, sDAI, sUSDS, sAERO, scbBTC }

\* TOKEN_ALIASES[symbol] || symbol
aliasOf(table, symbol) ==
    IF has(table, symbol) THEN lookup(table, symbol) ELSE symbol

\* resolveByAddress(address, provider)
resolveByAddress(address, otherSym) ==
    LET verifiedEntry == \E p \in VERIFIED_TOKENS : p[2] = address
        symbol == onChainSymbol(address, otherSym)
    IN  IF symbol = NoSymbol THEN Thrown("rpc")
        ELSE Descriptor(address, symbol, verifiedEntry, FALSE,
                 IF ~verifiedEntry /\ toUpperCase(symbol) \in PROTECTED_SYMBOLS
                 THEN "WARNING: NOT the verified token" ELSE "")

\* fault: the symbol is looked up in the letter case it was typed in
resolveTokenCaseSensitive(ref, otherSym) ==
    IF ref.isAddress THEN resolveByAddress(ref.address, otherSym)
    ELSE LET symbol == stripSigil(trim(ref.text))
             aliasedSymbol == aliasOf(TOKEN_ALIASES, symbol)
         IN  IF has(VERIFIED_TOKENS, aliasedSymbol)
             THEN LET address == lookup(VERIFIED_TOKENS, aliasedSymbol)
                  IN  Descriptor(address, onChainSymbol(address, otherSym),
                                 TRUE, FALSE, "")
             ELSE IF aliasedSymbol \in PROTECTED_SYMBOLS
                  THEN Thrown("protected")
                  ELSE Thrown("notfound")

\* resolveToken(token, provider)
resolveToken(ref, otherSym) ==
    IF ref.isAddress THEN resolveByAddress(ref.address, otherSym)
    ELSE LET symbol == stripSigil(toUpperCase(trim(ref.text)))
             aliasedSymbol == aliasOf(TOKEN_ALIASES, symbol)
         IN  IF has(VERIFIED_TOKENS, aliasedSymbol)
             THEN LET address == lookup(VERIFIED_TOKENS, aliasedSymbol)
                  IN  Descriptor(address, onChainSymbol(address, otherSym),
                                 TRUE, FALSE, "")
             ELSE IF aliasedSymbol \in PROTECTED_SYMBOLS
                  THEN Thrown("protected")
                  ELSE Thrown("notfound")

-----------------------------------------------------------------------------
(* clawlett/scripts/swap.js (Aerodrome, hardened): token resolution        *)

\* TOKEN_REGISTRY as the file has it: symbol -> << address, native, display >>
TOKEN_REGISTRY ==
    { << sETH, << NATIVE_ETH, TRUE, sETH >> >>,
      << sWETH, << WETH_ADDRESS, FALSE, sWETH >> >>,
      << sUSDT, << USDT_ADDRESS, FALSE, sUSDT >> >>,
      << sDAI, << DAI_ADDRESS, FALSE, sDAI >> >>,
      << sUSDS, << USDS_ADDRESS, FALSE, sUSDS >> >>,
      << sAERO, << AERO_ADDRESS, FALSE, sAERO >> >>,
      << sVIRTUAL, << VIRTUAL_ADDRESS, FALSE, sVIRTUAL >> >>,
      << sDEGEN, << DEGEN_ADDRESS, FALSE, sDEGEN >> >>,
      << sBRETT, << BRETT_ADDRESS, FALSE, sBRETT >> >>,
      << sTOSHI, << TOSHI_ADDRESS, FALSE, sTOSHI >> >>,
      << sWELL, << WELL_ADDRESS, FALSE, sWELL >> >>,
      << sBID, << BID_ADDRESS, FALSE, sBID >> >> }

\* the string-valued entries that follow the registry entries (the table that
\* resolveToken reads as TOKEN_ALIASES)
REGISTRY_ALIASES ==
    { << sETHEREUM, sETH >>, << sUSD_COIN, sUSDC >>, << sTETHER, sUSDT >>,
      << sCBBTC, sCBBTC >>, << sCBBTCTOKEN, sCBBTC >> }

REGISTRY_PROTECTED_SYMBOLS ==
    { sETH, sWETH, sUSDC, sUSDT, sDAI, sUSDS, sAERO, sCBBTC, sBID }

\* normalizeSymbol(input)
normalizeSymbol(input) == stripSigil(toUpperCase(trim(input)))

\* resolveByAddress(addressInput, provider).  The returned object has no
\* `verified` property in the file (read as false); `canonical` is read as the
\* normalized on-chain symbol, the key TOKEN_REGISTRY[canonical] needs.
registryResolveByAddress(address, otherSym) ==
    IF address = NATIVE_ETH THEN Descriptor(NATIVE_ETH, sETH, FALSE, TRUE, "")
    ELSE LET verifiedEntry == \E p \in TOKEN_REGISTRY : p[2][1] = address
             symbol == onChainSymbol(address, otherSym)
         IN  IF symbol = NoSymbol THEN Thrown("rpc")
             ELSE Descriptor(address, symbol, FALSE, FALSE,
                      IF ~verifiedEntry
                         /\ normalizeSymbol(symbol) \in REGISTRY_PROTECTED_SYMBOLS
                      THEN "WARNING: protected symbol, address does not match"
                      ELSE "")

\* resolveToken(input, provider)
registryResolveToken(ref, otherSym) ==
    IF ref.isAddress THEN registryResolveByAddress(ref.address, otherSym)
    ELSE LET symbolInput == normalizeSymbol(ref.text)
             key == aliasOf(REGISTRY_ALIASES, symbolInput)
         IN  IF ~has(TOKEN_REGISTRY, key)
             THEN IF key \in REGISTRY_PROTECTED_SYMBOLS
                  THEN Thrown("protected")
                  ELSE Thrown("notfound")
             ELSE LET entry == lookup(TOKEN_REGISTRY, key)
                  IN  IF entry[2]
                      THEN Descriptor(entry[1], entry[3], TRUE, TRUE, "")
                      ELSE Descriptor(entry[1], onChainSymbol(entry[1], otherSym),
                                      TRUE, FALSE, "")

\* resolveToken of ./tokens.js, which the CoW script imports: symbols through
\* the registry, the all-zero address for native ETH
libResolveToken(ref, otherSym) == registryResolveToken(ref, otherSym)

resolve(v, ref, otherSym) ==
    CASE v = "basic" -> resolveToken(ref, otherSym)
      [] v = "hardened" -> registryResolveToken(ref, otherSym)
      [] v = "cow" -> libResolveToken(ref, otherSym)

-----------------------------------------------------------------------------
(* Bounds of the model                                                     *)

\* amounts on the command line are 1..MaxAmount (base units)
MaxAmount == 2
\* balances and allowances read from the chain are 0..MaxBalance
MaxBalance == 2
\* amounts in a quote are 0..MaxQuote
MaxQuote == 3

-----------------------------------------------------------------------------
(* Configuration (config/wallet.json) and contracts                        *)

SAFE_ADDRESS  == "0x5afe5afe5afe5afe5afe5afe5afe5afe5afe5afe"
ROLES_ADDRESS == "0x7013570135701357013570135701357013570135"
ROLE_KEY      == "config.roleKey"
\* an address that is not the Safe
ATTACKER_ADDRESS == "0xbad0bad0bad0bad0bad0bad0bad0bad0bad0bad0"

AeroRouter == "0xcf77a3ba9a5ca399b7c97c74d54e5b1beb874e43"
ApprovalHelper == "0x55881791383a2ab8fb6f98267419e83e074fd076"
AeroUniversalRouter == "0x6df1c91424f79e40e33b1a48f0687b666be71075"
ZodiacHelpers == "0xc235d2475e4424f277b53d19724e2453a8686c54"

\* BigInt division truncates toward zero
bigDiv(a, b) ==
    IF (a >= 0) = (b > 0) THEN (IF a >= 0 THEN a ELSE -a) \div (IF b > 0 THEN b ELSE -b)
    ELSE -((IF a >= 0 THEN a ELSE -a) \div (IF b > 0 THEN b ELSE -b))

\* slippage on the command line, as a count of 1/100000 (0.05 is 5000, 1 is 100000)
SlippageUnit == 100000

-----------------------------------------------------------------------------
(* State shared by the three main() functions                              *)

\* `answer` is how the quote service answered: "none" before the request,
\* "ok", "http error" (response.ok is false) or "error field" (the body has one)
NoQuote == [got |-> FALSE, answer |-> "none"]
refusal(ok) == [NoQuote EXCEPT !.answer = IF ok THEN "error field" ELSE "http error"]
NoChain == [balance |-> -1, weth |-> -1, eth |-> -1, allowance |-> -1, chainId |-> -1,
            deployed |-> {"<not read>"}]
NoWrap  == [ethSubstituted |-> FALSE, wrapAmount |-> 0]
NoOrder == [posted |-> FALSE]
NoPoll  == [started |-> FALSE, startTime |-> 0, now |-> 0, waits |-> 0,
            askedAt |-> -1, log |-> << >>, result |-> ""]
NoRv    == [variant |-> "", ref |-> SymRef(<< >>), sym |-> NoSymbol,
            out |-> NoToken, done |-> FALSE]

\* a transaction signed by the agent key.  `via` is the function called on `on`;
\* to/value/operation/roleKey are the arguments of execTransactionWithRole.
RoleTx(kind, to, value, operation, payload) ==
    [kind |-> kind, on |-> ROLES_ADDRESS, via |-> "execTransactionWithRole",
     to |-> to, value |-> value, operation |-> operation, roleKey |-> ROLE_KEY,
     shouldRevert |-> TRUE, payload |-> payload, status |-> "pending"]

lastTx == txs[Len(txs)]
setLastStatus(st) == [txs EXCEPT ![Len(txs)].status = st]

\* what the symbol() of the unlisted contract may answer
OtherSymbols == { << "F","O","O" >>, sUSDC, NoSymbol }

\* references used on the command line of a run
FromRefs == { SymRef(sETH), SymRef(sWETH), SymRef(sDAI), SymRef(sUSDC),
              AddrRef(OTHER_ADDRESS) }
ToRefs   == { SymRef(sETH), SymRef(sDAI) }

ArgsOf(v) ==
    [from : FromRefs, to : ToRefs, amountIn : 1..MaxAmount, execute : BOOLEAN,
     slippage : CASE v = "basic" -> {SlippageUnit, SlippageUnit \div 2}
                  [] v = "hardened" -> {SlippageUnit \div 20, (6 * SlippageUnit) \div 10}
                  [] v = "cow" -> {SlippageUnit \div 20},
     approveMode : IF v = "hardened" THEN {"exact", "max"} ELSE {"exact"},
     revokeAfter : IF v = "hardened" THEN BOOLEAN ELSE {FALSE},
     simulate : IF v = "hardened" THEN BOOLEAN ELSE {TRUE},
     timeout : IF v = "cow" THEN {0, 5, 12} ELSE {0}]

Init ==
    /\ variant \in {"basic", "hardened", "cow"}
    /\ args \in ArgsOf(variant)
    /\ pc = "start"
    /\ err = ""
    /\ tokenIn = NoToken
    /\ tokenOut = NoToken
    /\ chain = NoChain
    /\ quote = NoQuote
    /\ minAmountOut = 0
    /\ wrap = NoWrap
    /\ keyLoaded = FALSE
    /\ summaryShown = FALSE
    /\ txs = << >>
    /\ http = << >>
    /\ sims = << >>
    /\ order = NoOrder
    /\ poll = NoPoll
    /\ rv = NoRv

\* the run ends with a failure (console.error + process.exit(1), or a throw
\* caught by main().catch)
Fail(e) == pc' = "failed" /\ err' = e

-----------------------------------------------------------------------------
(* claw-wallet/scripts/swap.js: main()                                     *)

\* lines 304-323: both tokens are resolved, the first failure ends the run
BasicResolve ==
    /\ variant = "basic" /\ pc = "start"
    /\ \E otherSym \in OtherSymbols :
         LET tin == resolveToken(args.from, otherSym)
             tout == resolveToken(args.to, otherSym)
         IN  /\ tokenIn' = tin
             /\ tokenOut' = IF tin.ok THEN tout ELSE tokenOut
             /\ IF ~tin.ok THEN Fail(tin.error)
                ELSE IF ~tout.ok THEN Fail(tout.error)
                ELSE pc' = "balance" /\ err' = err
    /\ UNCHANGED << variant, args, chain, quote, minAmountOut, wrap, keyLoaded,
                    summaryShown, txs, http, sims, order, poll, rv >>

\* isETHIn / the balance branch: the WETH address stands for ETH
basicIsETH(token) == token.address = WETH_ADDRESS

\* lines 328-342: balance check
BasicCheckBalance ==
    /\ variant = "basic" /\ pc = "balance"
    /\ \E balance \in 0..MaxBalance :
         /\ chain' = [chain EXCEPT !.balance = balance,
                                   !.eth = IF basicIsETH(tokenIn) THEN balance ELSE @]
         /\ IF balance < args.amountIn THEN Fail("insufficient")
            ELSE pc' = "quote" /\ err' = err
    /\ UNCHANGED << variant, args, tokenIn, tokenOut, quote, minAmountOut, wrap,
                    keyLoaded, summaryShown, txs, http, sims, order, poll, rv >>

\* line 354: quote.amountOut * BigInt(100 - args.slippage) / 100n; BigInt of a
\* number that is not an integer throws
basicMinAmountOut(amountOut, slippage) ==
    IF slippage % SlippageUnit # 0 THEN [ok |-> FALSE, value |-> 0]
    ELSE [ok |-> TRUE,
          value |-> bigDiv(amountOut * (100 - slippage \div SlippageUnit), 100)]

\* lines 365-369: without --execute the run ends after the summary
basicAfterSummary(execute) == IF execute THEN "key" ELSE "done"

\* lines 344-369: getQuote, minAmountOut, summary, the --execute test
BasicGetQuote ==
    /\ variant = "basic" /\ pc = "quote"
    /\ http' = Append(http, "POST quote")
    /\ \E ok \in BOOLEAN, error \in BOOLEAN, amountOut \in {0, MaxQuote} :
         IF ~ok \/ error
         THEN /\ Fail("quote")
              /\ quote' = refusal(ok)
              /\ UNCHANGED << minAmountOut, summaryShown >>
         ELSE LET m == basicMinAmountOut(amountOut, args.slippage)
              IN  /\ quote' = [got |-> TRUE, answer |-> "ok", amountOut |-> amountOut]
                  /\ IF ~m.ok
                     THEN Fail("bigint") /\ UNCHANGED << minAmountOut, summaryShown >>
                     ELSE /\ minAmountOut' = m.value
                          /\ summaryShown' = TRUE
                          /\ pc' = basicAfterSummary(args.execute)
                          /\ err' = err
    /\ UNCHANGED << variant, args, tokenIn, tokenOut, chain, wrap, keyLoaded,
                    txs, sims, order, poll, rv >>

\* lines 373-381: the agent key
BasicLoadKey ==
    /\ variant = "basic" /\ pc = "key"
    /\ \E exists \in BOOLEAN :
         IF exists THEN keyLoaded' = TRUE /\ pc' = "approve" /\ err' = err
         ELSE Fail("nokey") /\ keyLoaded' = keyLoaded
    /\ UNCHANGED << variant, args, tokenIn, tokenOut, chain, quote, minAmountOut,
                    wrap, summaryShown, txs, http, sims, order, poll, rv >>

\* the approval transaction of lines 401-414
basicApproveTx ==
    RoleTx("approve", ApprovalHelper, 0, 1,
           [token |-> tokenIn.address, unlimited |-> TRUE, amount |-> 0])

\* lines 389-418: allowance read (0 when the read throws) and approval
BasicApprove ==
    /\ variant = "basic" /\ pc = "approve"
    /\ IF basicIsETH(tokenIn)
       THEN pc' = "swap" /\ err' = err /\ UNCHANGED << chain, txs >>
       ELSE \E allowance \in 0..MaxBalance, sent \in BOOLEAN :
              /\ chain' = [chain EXCEPT !.allowance = allowance]
              /\ IF allowance >= args.amountIn
                 THEN pc' = "swap" /\ err' = err /\ txs' = txs
                 ELSE IF sent
                      THEN /\ txs' = Append(txs, basicApproveTx)
                           /\ pc' = "approve_wait" /\ err' = err
                      ELSE Fail("send") /\ txs' = txs
    /\ UNCHANGED << variant, args, tokenIn, tokenOut, quote, minAmountOut, wrap,
                    keyLoaded, summaryShown, http, sims, order, poll, rv >>

\* line 415: approveTx.wait()
BasicApproveWait ==
    /\ variant = "basic" /\ pc = "approve_wait"
    /\ \E st \in {"success", "reverted"} :
         /\ txs' = setLastStatus(st)
         /\ IF st = "success" THEN pc' = "swap" /\ err' = err ELSE Fail("execution")
    /\ UNCHANGED << variant, args, tokenIn, tokenOut, chain, quote, minAmountOut,
                    wrap, keyLoaded, summaryShown, http, sims, order, poll, rv >>

\* fault: the swap sent to the router by the agent key itself
basicSwapTxDirect ==
    [kind |-> "swap", on |-> AeroRouter, via |-> "swapExactTokensForTokens",
     to |-> AeroRouter, value |-> IF basicIsETH(tokenIn) THEN args.amountIn ELSE 0,
     operation |-> 0, roleKey |-> "", shouldRevert |-> FALSE,
     payload |-> [recipient |-> SAFE_ADDRESS, amountOutMin |-> minAmountOut],
     status |-> "pending"]

\* lines 420-443: the swap call on the router, always with the Safe as `to`
basicSwapTx ==
    RoleTx("swap", AeroRouter, IF basicIsETH(tokenIn) THEN args.amountIn ELSE 0, 0,
           [recipient |-> SAFE_ADDRESS, amountOutMin |-> minAmountOut])

BasicSwap ==
    /\ variant = "basic" /\ pc = "swap"
    /\ \E sent \in BOOLEAN :
         \* a negative amountOutMin cannot be encoded as uint256
         IF minAmountOut < 0 THEN Fail("encode") /\ txs' = txs
         ELSE IF sent
              THEN txs' = Append(txs, basicSwapTx) /\ pc' = "swap_wait" /\ err' = err
              ELSE Fail("send") /\ txs' = txs
    /\ UNCHANGED << variant, args, tokenIn, tokenOut, chain, quote, minAmountOut,
                    wrap, keyLoaded, summaryShown, http, sims, order, poll, rv >>

\* lines 446-463: the receipt
BasicSwapWait ==
    /\ variant = "basic" /\ pc = "swap_wait"
    /\ \E st \in {"success", "reverted"} :
         /\ txs' = setLastStatus(st)
         /\ IF st = "success" THEN pc' = "done" /\ err' = err ELSE Fail("execution")
    /\ UNCHANGED << variant, args, tokenIn, tokenOut, chain, quote, minAmountOut,
                    wrap, keyLoaded, summaryShown, http, sims, order, poll, rv >>

-----------------------------------------------------------------------------
(* clawlett/scripts/swap.js (Aerodrome, hardened): main()                  *)

\* Number(text) of a --slippage that is no number: NaN, which is not finite
NotANumber == 0 - 2 * SlippageUnit

\* fault: the basis points truncated, not rounded
parseSlippageBpsTruncated(value) ==
    IF value = NotANumber
    THEN [ok |-> FALSE, bps |-> 0, error |-> "Invalid slippage"]
    ELSE IF value < 0 \/ value > SlippageUnit \div 2
    THEN [ok |-> FALSE, bps |-> 0, error |-> "Slippage must be between 0 and 0.5"]
    ELSE [ok |-> TRUE, error |-> "", bps |-> (value * 10000) \div SlippageUnit]

CHAIN_ID == 8453

\* parseSlippageBps(value): the bps, or the throw for a value outside [0, 0.5]
parseSlippageBps(value) ==
    IF value = NotANumber
    THEN [ok |-> FALSE, bps |-> 0, error |-> "Invalid slippage"]
    ELSE IF value < 0 \/ value > SlippageUnit \div 2
    THEN [ok |-> FALSE, bps |-> 0, error |-> "Slippage must be between 0 and 0.5"]
    ELSE [ok |-> TRUE, error |-> "",
          bps |-> (value * 10000 + SlippageUnit \div 2) \div SlippageUnit]

\* calldata of a quote: a string of characters, or not a string at all
Calldata(text) == [isString |-> TRUE, text |-> text]
cdMissing  == [isString |-> FALSE, text |-> << >>]
cdExecute  == Calldata(<< "0","x","3","5","9","3","5","6","4","c","0","0" >>)
cdOther    == Calldata(<< "0","x","a","b" >>)
cdOdd      == Calldata(<< "0","x","a" >>)
cdNoPrefix == Calldata(<< "a","b" >>)
cdNotHex   == Calldata(<< "0","x","z","z" >>)

startsWith(text, prefix) ==
    Len(text) >= Len(prefix) /\ SubSeq(text, 1, Len(prefix)) = prefix

\* requireHexData(data, label): TRUE when it does not throw
requireHexData(data) ==
    data.isString /\ startsWith(data.text, << "0","x" >>) /\ Len(data.text) % 2 = 0

hexChars == { "0","1","2","3","4","5","6","7","8","9",
              "a","b","c","d","e","f","A","B","C","D","E","F" }

\* the `data` argument of execTransactionWithRole is of type bytes: encoding
\* the call throws unless it is 0x followed by pairs of hex digits
isBytesLike(data) ==
    /\ requireHexData(data)
    /\ \A i \in 3..Len(data.text) : data.text[i] \in hexChars

selectorExecute == << "0","x","3","5","9","3","5","6","4","c" >>
selectorExecuteSwap == << "0","x","f","2","3","6","7","4","e","8" >>

\* lines 483-487: UniversalRouter.execute -> ZodiacHelpers.executeSwap
rewriteSelector(data) ==
    IF startsWith(data.text, selectorExecute)
    THEN Calldata(selectorExecuteSwap \o SubSeq(data.text, 11, Len(data.text)))
    ELSE data

\* fault: validateQuotePayload without the two tests of quote.value
validateQuotePayloadNoValueTest(q, amountIn, isETHIn, recipientRejected) ==
    IF ~q.got THEN "Quote is missing"
    ELSE IF ~requireHexData(q.calldata) THEN "quote.calldata must be valid hex data"
    ELSE IF recipientRejected THEN "Invalid Safe recipient address"
    ELSE ""

\* validateQuotePayload({ quote, amountIn, safeAddress, isETHIn }): "" when it
\* returns, else the error thrown.  The condition of the last throw ('Invalid
\* Safe recipient address') is not in the file: recipientRejected is that
\* condition, decided by the environment.
validateQuotePayload(q, amountIn, isETHIn, recipientRejected) ==
    IF ~q.got THEN "Quote is missing"
    ELSE IF ~requireHexData(q.calldata) THEN "quote.calldata must be valid hex data"
    ELSE IF ~isETHIn /\ q.value # 0 THEN "Unsafe quote: ERC20-in swap returned non-zero ETH value"
    ELSE IF isETHIn /\ q.value > amountIn THEN "Unsafe quote: ETH value exceeds amountIn"
    ELSE IF recipientRejected THEN "Invalid Safe recipient address"
    ELSE ""

\* line 461: quote.minAmountOut || (amountOut * BigInt(10000 - slippageBps)) / 10000n
\* (a minAmountOut of zero, or none, is falsy)
hardenedMinAmountOut(q, slippageBps) ==
    IF q.minAmountOut # 0 THEN q.minAmountOut
    ELSE bigDiv(q.amountOut * (10000 - slippageBps), 10000)

\* lines 293-298: requiredAddresses
requiredAddresses == { SAFE_ADDRESS, ROLES_ADDRESS, AeroUniversalRouter, ZodiacHelpers }

\* fault: the router left out of the bytecode check
preflightWithoutRouter(chainId, deployed) ==
    IF chainId # CHAIN_ID THEN "chain"
    ELSE IF \E a \in requiredAddresses \ {AeroUniversalRouter} : a \notin deployed
    THEN "nocode"
    ELSE ""

\* preflight(provider, config, safeAddress), lines 287-303: the error it throws
\* ("" when it returns) for the chain id the endpoint reports and the set of
\* addresses that have bytecode
preflight(chainId, deployed) ==
    IF chainId # CHAIN_ID THEN "chain"
    ELSE IF \E a \in requiredAddresses : a \notin deployed THEN "nocode"
    ELSE ""

\* lines 428-433: parseSlippageBps, then preflight (chain id, bytecode)
HardenedStart ==
    /\ variant = "hardened" /\ pc = "start"
    /\ IF ~parseSlippageBps(args.slippage).ok
       THEN Fail("slippage") /\ chain' = chain
       ELSE \E chainId \in {CHAIN_ID, CHAIN_ID + 1},
               deployed \in SUBSET requiredAddresses :
              /\ chain' = [chain EXCEPT !.chainId = chainId,
                              !.deployed = IF chainId = CHAIN_ID THEN deployed ELSE @]
              /\ IF preflight(chainId, deployed) # ""
                 THEN Fail(preflight(chainId, deployed))
                 ELSE pc' = "resolve" /\ err' = err
    /\ UNCHANGED << variant, args, tokenIn, tokenOut, quote, minAmountOut, wrap,
                    keyLoaded, summaryShown, txs, http, sims, order, poll, rv >>

\* lines 435-440
HardenedResolve ==
    /\ variant = "hardened" /\ pc = "resolve"
    /\ \E otherSym \in OtherSymbols :
         LET tin == registryResolveToken(args.from, otherSym)
             tout == registryResolveToken(args.to, otherSym)
         IN  /\ tokenIn' = tin
             /\ tokenOut' = IF tin.ok THEN tout ELSE tokenOut
             /\ IF ~tin.ok THEN Fail(tin.error)
                ELSE IF ~tout.ok THEN Fail(tout.error)
                ELSE pc' = "balance" /\ err' = err
    /\ UNCHANGED << variant, args, chain, quote, minAmountOut, wrap, keyLoaded,
                    summaryShown, txs, http, sims, order, poll, rv >>

\* lines 443-452: balance check (the throw's guard is balance < amountIn)
HardenedCheckBalance ==
    /\ variant = "hardened" /\ pc = "balance"
    /\ \E balance \in 0..MaxBalance :
         /\ chain' = [chain EXCEPT !.balance = balance,
                                   !.eth = IF tokenIn.native THEN balance ELSE @]
         /\ IF balance < args.amountIn THEN Fail("insufficient")
            ELSE pc' = "quote" /\ err' = err
    /\ UNCHANGED << variant, args, tokenIn, tokenOut, quote, minAmountOut, wrap,
                    keyLoaded, summaryShown, txs, http, sims, order, poll, rv >>

\* answers of the quote service.  The object getQuote returns is cut short in
\* the file; validateQuotePayload and main read quote.value, so the value of
\* the answer is carried.
HardenedAnswer(amountOut, minOut, calldata, value) ==
    [ok |-> TRUE, error |-> FALSE, amountOut |-> amountOut, minAmountOut |-> minOut,
     calldata |-> calldata, value |-> value]

HardenedAnswers ==
    { HardenedAnswer(a, m, cdExecute, 0) : a \in {0, MaxQuote}, m \in {0, 1} }
    \cup { HardenedAnswer(MaxQuote, 0, c, 0) :
             c \in {cdOther, cdOdd, cdNoPrefix, cdNotHex, cdMissing} }
    \cup { HardenedAnswer(MaxQuote, 0, cdExecute, v) : v \in 1..(MaxAmount + 1) }
    \cup { [HardenedAnswer(MaxQuote, 0, cdExecute, 0) EXCEPT !.ok = FALSE],
           [HardenedAnswer(MaxQuote, 0, cdExecute, 0) EXCEPT !.error = TRUE] }

\* getQuote (lines 310-333) as called at line 454
HardenedGetQuote ==
    /\ variant = "hardened" /\ pc = "quote"
    /\ http' = Append(http, "POST quote")
    /\ \E answer \in HardenedAnswers :
         IF ~answer.ok \/ answer.error
         THEN Fail("quote") /\ quote' = refusal(answer.ok)
         ELSE /\ quote' = [got |-> TRUE, answer |-> "ok", amountOut |-> answer.amountOut,
                           minAmountOut |-> answer.minAmountOut,
                           calldata |-> answer.calldata, value |-> answer.value]
              /\ pc' = "validate" /\ err' = err
    /\ UNCHANGED << variant, args, tokenIn, tokenOut, chain, minAmountOut, wrap,
                    keyLoaded, summaryShown, txs, sims, order, poll, rv >>

\* lines 469-472: without --execute the run ends after the summary
hardenedAfterSummary(execute) == IF execute THEN "key" ELSE "done"

\* lines 455-472: validation, minAmountOut, summary, the --execute test
HardenedValidate ==
    /\ variant = "hardened" /\ pc = "validate"
    /\ \E recipientRejected \in BOOLEAN :
         LET verdict == validateQuotePayload(quote, args.amountIn, tokenIn.native,
                                             recipientRejected)
         IN  IF verdict # ""
             THEN Fail(verdict) /\ UNCHANGED << minAmountOut, summaryShown >>
             ELSE /\ minAmountOut' =
                        hardenedMinAmountOut(quote, parseSlippageBps(args.slippage).bps)
                  /\ summaryShown' = TRUE
                  /\ pc' = hardenedAfterSummary(args.execute)
                  /\ err' = err
    /\ UNCHANGED << variant, args, tokenIn, tokenOut, chain, quote, wrap, keyLoaded,
                    txs, http, sims, order, poll, rv >>

\* lines 473-488: the agent key, then the calldata of the swap
HardenedLoadKey ==
    /\ variant = "hardened" /\ pc = "key"
    /\ \E exists \in BOOLEAN :
         IF ~exists THEN Fail("nokey") /\ keyLoaded' = keyLoaded
         ELSE /\ keyLoaded' = TRUE
              /\ IF requireHexData(rewriteSelector(quote.calldata))
                 THEN pc' = "approve" /\ err' = err
                 ELSE Fail("calldata")
    /\ UNCHANGED << variant, args, tokenIn, tokenOut, chain, quote, minAmountOut,
                    wrap, summaryShown, txs, http, sims, order, poll, rv >>

\* line 368: approveMode === 'max' ? ethers.MaxUint256 : amountIn
approvalAmount(approveMode, amountIn) ==
    IF approveMode = "max" THEN [unlimited |-> TRUE, amount |-> 0]
    ELSE [unlimited |-> FALSE, amount |-> amountIn]

\* the transaction of lines 374-381
hardenedApproveTx ==
    LET a == approvalAmount(args.approveMode, args.amountIn)
    IN  RoleTx("approve", ZodiacHelpers, 0, 1,
               [token |-> tokenIn.address, unlimited |-> a.unlimited,
                amount |-> a.amount])

\* fault: the allowance is never taken as sufficient
allowanceCoversNever(allowance, amountIn) == FALSE

\* fault: an allowance equal to amountIn is taken as too small
allowanceCoversStrict(allowance, amountIn) == allowance > amountIn

\* line 365: if (allowance >= amountIn) return
allowanceCovers(allowance, amountIn) == allowance >= amountIn

\* maybeApprove (lines 357-381) for a token that is not native, with the
\* allowance read (0 when the read throws) and whether the submission succeeds
maybeApproveToken(allowance, sent) ==
    /\ chain' = [chain EXCEPT !.allowance = allowance]
    /\ IF allowanceCovers(allowance, args.amountIn)
       THEN pc' = "simulate" /\ err' = err /\ txs' = txs
       ELSE IF sent
            THEN /\ txs' = Append(txs, hardenedApproveTx)
                 /\ pc' = "approve_wait" /\ err' = err
            ELSE Fail("send") /\ txs' = txs

\* maybeApprove (lines 350-381) up to the submission
HardenedApprove ==
    /\ variant = "hardened" /\ pc = "approve"
    /\ IF tokenIn.native
       THEN pc' = "simulate" /\ err' = err /\ UNCHANGED << chain, txs >>
       ELSE \E allowance \in 0..MaxBalance, sent \in BOOLEAN :
              maybeApproveToken(allowance, sent)
    /\ UNCHANGED << variant, args, tokenIn, tokenOut, quote, minAmountOut, wrap,
                    keyLoaded, summaryShown, http, sims, order, poll, rv >>

\* fault: the approval is not awaited, the flow goes on while it is pending
HardenedApproveNoWait ==
    /\ variant = "hardened" /\ pc = "approve_wait"
    /\ pc' = "simulate"
    /\ UNCHANGED << variant, args, err, tokenIn, tokenOut, chain, quote, minAmountOut,
                    wrap, keyLoaded, summaryShown, txs, http, sims, order, poll, rv >>

\* line 382: tx.wait()
HardenedApproveWait ==
    /\ variant = "hardened" /\ pc = "approve_wait"
    /\ \E st \in {"success", "reverted"} :
         /\ txs' = setLastStatus(st)
         /\ IF st = "success" THEN pc' = "simulate" /\ err' = err
            ELSE Fail("execution")
    /\ UNCHANGED << variant, args, tokenIn, tokenOut, chain, quote, minAmountOut,
                    wrap, keyLoaded, summaryShown, http, sims, order, poll, rv >>

\* line 490: ethValue
ethValue == IF tokenIn.native THEN args.amountIn ELSE 0

\* lines 515-522: the swap through ZodiacHelpers (delegatecall)
hardenedSwapTx ==
    RoleTx("swap", ZodiacHelpers, ethValue, 1,
           [data |-> rewriteSelector(quote.calldata)])

\* fault: the simulated call carries no native value
simulateExecutionNoValue(to, value, data, roleKey) ==
    [kind |-> "swap", on |-> ROLES_ADDRESS, via |-> "execTransactionWithRole",
     to |-> to, value |-> 0, operation |-> 1, roleKey |-> roleKey,
     shouldRevert |-> TRUE, payload |-> [data |-> data], status |-> "staticCall"]

\* simulateExecution({ roles, to, value, data, roleKey }), lines 403-418: the
\* call given to execTransactionWithRole.staticCall, with call kind 1
simulateExecution(to, value, data, roleKey) ==
    [kind |-> "swap", on |-> ROLES_ADDRESS, via |-> "execTransactionWithRole",
     to |-> to, value |-> value, operation |-> 1, roleKey |-> roleKey,
     shouldRevert |-> TRUE, payload |-> [data |-> data], status |-> "staticCall"]

\* lines 506-513 with simulateExecution (403-418): the staticCall of the swap.
\* The catch block builds the message of the revert; its throw is read as
\* present (the line is missing from the file).
HardenedSimulate ==
    /\ variant = "hardened" /\ pc = "simulate"
    /\ IF ~args.simulate
       THEN pc' = "swap" /\ err' = err /\ sims' = sims
       ELSE IF ~isBytesLike(hardenedSwapTx.payload.data)
       THEN Fail("encode") /\ sims' = sims
       ELSE \E reverts \in BOOLEAN :
              /\ sims' = Append(sims, simulateExecution(ZodiacHelpers, ethValue,
                                     rewriteSelector(quote.calldata), ROLE_KEY))
              /\ IF reverts THEN Fail("simulation") ELSE pc' = "swap" /\ err' = err
    /\ UNCHANGED << variant, args, tokenIn, tokenOut, chain, quote, minAmountOut,
                    wrap, keyLoaded, summaryShown, txs, http, order, poll, rv >>

\* lines 515-522
HardenedSwap ==
    /\ variant = "hardened" /\ pc = "swap"
    /\ \E sent \in BOOLEAN :
         IF ~isBytesLike(hardenedSwapTx.payload.data) THEN Fail("encode") /\ txs' = txs
         ELSE IF sent
         THEN txs' = Append(txs, hardenedSwapTx) /\ pc' = "swap_wait" /\ err' = err
         ELSE Fail("send") /\ txs' = txs
    /\ UNCHANGED << variant, args, tokenIn, tokenOut, chain, quote, minAmountOut,
                    wrap, keyLoaded, summaryShown, http, sims, order, poll, rv >>

\* lines 525-528: the receipt
HardenedSwapWait ==
    /\ variant = "hardened" /\ pc = "swap_wait"
    /\ \E st \in {"success", "reverted"} :
         /\ txs' = setLastStatus(st)
         /\ IF st = "success"
            THEN pc' = (IF args.revokeAfter THEN "revoke" ELSE "done") /\ err' = err
            ELSE Fail("execution")
    /\ UNCHANGED << variant, args, tokenIn, tokenOut, chain, quote, minAmountOut,
                    wrap, keyLoaded, summaryShown, http, sims, order, poll, rv >>

\* revokeAllowance (lines 385-399): approveForRouter(token, 0)
hardenedRevokeTx ==
    RoleTx("revoke", ZodiacHelpers, 0, 1,
           [token |-> tokenIn.address, unlimited |-> FALSE, amount |-> 0])

\* lines 530-537 with revokeAllowance up to the submission
HardenedRevoke ==
    /\ variant = "hardened" /\ pc = "revoke"
    /\ IF tokenIn.native THEN pc' = "done" /\ err' = err /\ txs' = txs
       ELSE \E sent \in BOOLEAN :
              IF sent
              THEN /\ txs' = Append(txs, hardenedRevokeTx)
                   /\ pc' = "revoke_wait" /\ err' = err
              ELSE Fail("revoke") /\ txs' = txs
    /\ UNCHANGED << variant, args, tokenIn, tokenOut, chain, quote, minAmountOut,
                    wrap, keyLoaded, summaryShown, http, sims, order, poll, rv >>

\* line 400: tx.wait(); nothing around the call at line 531 catches its throw
HardenedRevokeWait ==
    /\ variant = "hardened" /\ pc = "revoke_wait"
    /\ \E st \in {"success", "reverted"} :
         /\ txs' = setLastStatus(st)
         /\ IF st = "success" THEN pc' = "done" /\ err' = err ELSE Fail("revoke")
    /\ UNCHANGED << variant, args, tokenIn, tokenOut, chain, quote, minAmountOut,
                    wrap, keyLoaded, summaryShown, http, sims, order, poll, rv >>

-----------------------------------------------------------------------------
(* clawlett/scripts/swap.js (CoW Protocol): helpers                        *)

KIND_SELL == "0xf3b277728b3fee749481eb3e0b3b48980dbbab78658fc419025cb16eee346775"
KIND_BUY == "0x6ed88e868af0a1983e3886d5f3e95a2fafbd6c3450bc229e27342283dc429ccc"
BALANCE_ERC20 == "0x5a28e9363bb942b639270062aa6bb295f434bcdfc42c97267bf003f272060dc9"

\* a JSON null / an absent property
NULL == "null"
\* what a throwing conversion yields
THROWS == "throws"

decimalDigits == << "0","1","2","3","4","5","6","7","8","9" >>

RECURSIVE natToString(_)
natToString(n) ==
    IF n < 10 THEN << decimalDigits[n + 1] >>
    ELSE natToString(n \div 10) \o << decimalDigits[(n % 10) + 1] >>

\* BigInt.prototype.toString
bigToString(n) == IF n < 0 THEN << "-" >> \o natToString(-n) ELSE natToString(n)

digitValue(c) == (CHOOSE i \in DOMAIN decimalDigits : decimalDigits[i] = c) - 1

RECURSIVE stringToNat(_)
stringToNat(s) ==
    IF Len(s) = 1 THEN digitValue(s[1])
    ELSE 10 * stringToNat(SubSeq(s, 1, Len(s) - 1)) + digitValue(s[Len(s)])

\* BigInt(string) of a decimal string
toBigInt(s) == IF Head(s) = "-" THEN -stringToNat(Tail(s)) ELSE stringToNat(s)

\* kindToBytes32(kind)
kindToBytes32(kind) ==
    CASE kind = "sell" -> KIND_SELL
      [] kind = "buy" -> KIND_BUY
      [] OTHER -> THROWS

\* balanceToBytes32(balance)
balanceToBytes32(balance) ==
    CASE balance = "erc20" -> BALANCE_ERC20
      [] OTHER -> THROWS

\* a || b for a value that is null or a non-empty string
orElse(a, b) == IF a = NULL THEN b ELSE a

\* fault: the fee counted once, not one and a half times
cowBuySlippageFeeOnce(feeAmount, sellAmount, buyAmount) ==
    LET feeSlippage == feeAmount
        volumeSlippage == bigDiv(sellAmount * 5, 1000)
        totalSlippage == feeSlippage + volumeSlippage
    IN  IF sellAmount > 0 THEN bigDiv(totalSlippage * buyAmount, sellAmount)
        ELSE bigDiv(buyAmount * 5, 1000)

\* lines 687-693: the buy-token slippage of submitCowOrder
cowBuySlippage(feeAmount, sellAmount, buyAmount) ==
    LET feeSlippage == bigDiv(feeAmount * 3, 2)
        volumeSlippage == bigDiv(sellAmount * 5, 1000)
        totalSlippage == feeSlippage + volumeSlippage
    IN  IF sellAmount > 0 THEN bigDiv(totalSlippage * buyAmount, sellAmount)
        ELSE bigDiv(buyAmount * 5, 1000)

\* fault: the summary leaves the fee share out
displayBuySlippageNoFee(feeAmount, sellAmount, buyAmount) ==
    LET displayVolSlippage == bigDiv(sellAmount * 5, 1000)
    IN  IF sellAmount > 0 THEN bigDiv(displayVolSlippage * buyAmount, sellAmount)
        ELSE bigDiv(buyAmount * 5, 1000)

\* lines 1008-1013: the same computation for the summary
displayBuySlippage(feeAmount, sellAmount, buyAmount) ==
    LET displayFeeSlippage == bigDiv(feeAmount * 3, 2)
        displayVolSlippage == bigDiv(sellAmount * 5, 1000)
        displayTotalSlippage == displayFeeSlippage + displayVolSlippage
    IN  IF sellAmount > 0 THEN bigDiv(displayTotalSlippage * buyAmount, sellAmount)
        ELSE bigDiv(buyAmount * 5, 1000)

\* line 682: timeoutSeconds || 1800, the validity of the order in seconds
DefaultValidity == 1800
validFor(timeoutSeconds) == IF timeoutSeconds = 0 THEN DefaultValidity ELSE timeoutSeconds

\* buildAppData(slippageBips): keccak256 of the document, which varies with
\* slippageBips alone
appDataHash(slippageBips) == << "keccak256", slippageBips >>

\* lines 700-716: the order document of submitCowOrder; submitTime is
\* Math.floor(Date.now() / 1000)
cowOrder(q, safeAddress, timeoutSeconds, submitTime) ==
    LET buySlippage == cowBuySlippage(toBigInt(q.feeAmount), toBigInt(q.sellAmount),
                                      toBigInt(q.buyAmount))
        slippageBips == bigDiv(buySlippage * 10000, toBigInt(q.buyAmount))
    IN  [sellToken |-> q.sellToken,
         buyToken |-> q.buyToken,
         receiver |-> orElse(q.receiver, safeAddress),
         sellAmount |-> q.sellAmount,
         buyAmount |-> bigToString(toBigInt(q.buyAmount) - buySlippage),
         validTo |-> submitTime + validFor(timeoutSeconds),
         appData |-> appDataHash(slippageBips),
         feeAmount |-> << "0" >>,
         kind |-> q.kind,
         partiallyFillable |-> q.partiallyFillable,
         sellTokenBalance |-> orElse(q.sellTokenBalance, "erc20"),
         buyTokenBalance |-> orElse(q.buyTokenBalance, "erc20"),
         signingScheme |-> "presign",
         signature |-> safeAddress,
         from |-> safeAddress]

\* fault: the struct always built as a sell order
orderStructSellOnly(o, safeAddress) ==
    [sellToken |-> o.sellToken,
     buyToken |-> o.buyToken,
     receiver |-> orElse(o.receiver, safeAddress),
     sellAmount |-> toBigInt(o.sellAmount),
     buyAmount |-> toBigInt(o.buyAmount),
     validTo |-> o.validTo,
     appData |-> o.appData,
     feeAmount |-> 0,
     kind |-> KIND_SELL,
     partiallyFillable |-> o.partiallyFillable,
     sellTokenBalance |-> balanceToBytes32(orElse(o.sellTokenBalance, "erc20")),
     buyTokenBalance |-> balanceToBytes32(orElse(o.buyTokenBalance, "erc20"))]

\* lines 1086-1099: the struct given to cowPreSign
orderStruct(o, safeAddress) ==
    [sellToken |-> o.sellToken,
     buyToken |-> o.buyToken,
     receiver |-> orElse(o.receiver, safeAddress),
     sellAmount |-> toBigInt(o.sellAmount),
     buyAmount |-> toBigInt(o.buyAmount),
     validTo |-> o.validTo,
     appData |-> o.appData,
     feeAmount |-> 0,
     kind |-> kindToBytes32(o.kind),
     partiallyFillable |-> o.partiallyFillable,
     sellTokenBalance |-> balanceToBytes32(orElse(o.sellTokenBalance, "erc20")),
     buyTokenBalance |-> balanceToBytes32(orElse(o.buyTokenBalance, "erc20"))]

\* encodeFunctionData('cowPreSign', ...) succeeds: the conversions did not
\* throw and the unsigned fields are not negative
encodable(st) ==
    /\ st.kind # THROWS
    /\ st.sellTokenBalance # THROWS
    /\ st.buyTokenBalance # THROWS
    /\ st.sellAmount >= 0
    /\ st.buyAmount >= 0

-----------------------------------------------------------------------------
(* clawlett/scripts/swap.js (CoW Protocol): main()                         *)

\* lines 929-938: ETH is replaced by WETH on either side
substituteWeth(token) ==
    IF token.address = NATIVE_ETH
    THEN [token EXCEPT !.address = WETH_ADDRESS, !.symbol = sWETH]
    ELSE token

\* lines 910-938
CowResolve ==
    /\ variant = "cow" /\ pc = "start"
    /\ \E otherSym \in OtherSymbols :
         LET tin == libResolveToken(args.from, otherSym)
             tout == libResolveToken(args.to, otherSym)
         IN  IF ~tin.ok
             THEN Fail(tin.error) /\ tokenIn' = tin /\ UNCHANGED << tokenOut, wrap >>
             ELSE IF ~tout.ok
             THEN Fail(tout.error) /\ tokenIn' = tin /\ tokenOut' = tout /\ wrap' = wrap
             ELSE /\ tokenIn' = substituteWeth(tin)
                  /\ tokenOut' = substituteWeth(tout)
                  /\ wrap' = [wrap EXCEPT !.ethSubstituted =
                                 tin.address = NATIVE_ETH \/ tout.address = NATIVE_ETH]
                  /\ pc' = "balance" /\ err' = err
    /\ UNCHANGED << variant, args, chain, quote, minAmountOut, keyLoaded,
                    summaryShown, txs, http, sims, order, poll, rv >>

\* lines 951-982: balance check, with the amount of ETH to wrap
CowCheckBalance ==
    /\ variant = "cow" /\ pc = "balance"
    /\ IF wrap.ethSubstituted /\ tokenIn.address = WETH_ADDRESS
       THEN \E wethBalance \in 0..MaxBalance, ethBalance \in 0..MaxBalance :
              /\ IF wethBalance >= args.amountIn
                 THEN /\ chain' = [chain EXCEPT !.weth = wethBalance, !.eth = ethBalance,
                                                !.balance = wethBalance]
                      /\ wrap' = wrap /\ pc' = "quote" /\ err' = err
                 ELSE IF wethBalance + ethBalance >= args.amountIn
                 THEN /\ chain' = [chain EXCEPT !.weth = wethBalance, !.eth = ethBalance,
                                                !.balance = args.amountIn]
                      /\ wrap' = [wrap EXCEPT !.wrapAmount = args.amountIn - wethBalance]
                      /\ pc' = "quote" /\ err' = err
                 ELSE /\ chain' = [chain EXCEPT !.weth = wethBalance, !.eth = ethBalance]
                      /\ wrap' = wrap /\ Fail("insufficient")
       ELSE \E balance \in 0..MaxBalance :
              /\ chain' = [chain EXCEPT !.balance = balance,
                              !.weth = IF tokenIn.address = WETH_ADDRESS
                                       THEN balance ELSE @]
              /\ wrap' = wrap
              /\ IF balance < args.amountIn THEN Fail("insufficient")
                 ELSE pc' = "quote" /\ err' = err
    /\ UNCHANGED << variant, args, tokenIn, tokenOut, quote, minAmountOut,
                    keyLoaded, summaryShown, txs, http, sims, order, poll, rv >>

\* the `quote` object of an answer of POST /api/v1/quote
CowAnswer(sell, buy, fee, receiver, kind, pf, stb, btb) ==
    [got |-> TRUE, answer |-> "ok",
     sellToken |-> tokenIn.address, buyToken |-> tokenOut.address,
     sellAmount |-> bigToString(sell), buyAmount |-> bigToString(buy),
     feeAmount |-> bigToString(fee), receiver |-> receiver, kind |-> kind,
     partiallyFillable |-> pf, sellTokenBalance |-> stb, buyTokenBalance |-> btb]

CowAnswers ==
    { CowAnswer(s, b, f, SAFE_ADDRESS, "sell", FALSE, NULL, NULL) :
        s \in {0, MaxAmount}, b \in {0, MaxQuote}, f \in {0, MaxAmount} }
    \cup { CowAnswer(MaxAmount, MaxQuote, 0, r, "sell", FALSE, NULL, NULL) :
             r \in {NULL, ATTACKER_ADDRESS} }
    \cup { CowAnswer(MaxAmount, MaxQuote, 0, SAFE_ADDRESS, k, FALSE, NULL, NULL) :
             k \in {"buy", "liquidity"} }
    \* a quote large enough for the fee and volume shares not to vanish
    \cup { CowAnswer(1000 * MaxAmount, 1000 * MaxQuote, 10 * MaxAmount, SAFE_ADDRESS,
                     "sell", FALSE, NULL, NULL) }
    \cup { CowAnswer(MaxAmount, MaxQuote, 0, SAFE_ADDRESS, "sell", TRUE, "erc20", "erc20"),
           CowAnswer(MaxAmount, MaxQuote, 0, SAFE_ADDRESS, "sell", FALSE, "external", NULL),
           CowAnswer(MaxAmount, MaxQuote, 0, SAFE_ADDRESS, "sell", FALSE, NULL, "internal") }

\* answers with status 200 whose body has an error field, with and without a
\* quote object beside it
CowErrorAnswers ==
    { [CowAnswer(MaxAmount, MaxQuote, 0, SAFE_ADDRESS, "sell", FALSE, NULL, NULL)
          EXCEPT !.answer = "error field"],
      refusal(TRUE) }

\* fault: the --execute test left out
cowAfterSummaryNoTest(execute) == "key"

\* lines 1025-1029: without --execute the run ends after the summary
cowAfterSummary(execute) == IF execute THEN "key" ELSE "done"

\* lines 984-1029: getCowQuote (623-648), the summary, the --execute test.
\* getCowQuote tests response.ok alone; main reads quoteResponse.quote, which
\* throws a TypeError when the body has no quote.  The summary divides by
\* buyAmount (line 1015).
CowGetQuote ==
    /\ variant = "cow" /\ pc = "quote"
    /\ http' = Append(http, "POST quote")
    /\ \E ok \in BOOLEAN, q \in CowAnswers \cup CowErrorAnswers :
         IF ~ok
         THEN /\ Fail("quote") /\ quote' = refusal(FALSE)
              /\ UNCHANGED << minAmountOut, summaryShown >>
         ELSE /\ quote' = q
              /\ IF ~q.got
                 THEN Fail("typeerror") /\ UNCHANGED << minAmountOut, summaryShown >>
                 ELSE IF toBigInt(q.buyAmount) = 0
                 THEN Fail("divzero") /\ UNCHANGED << minAmountOut, summaryShown >>
                 ELSE /\ minAmountOut' = toBigInt(q.buyAmount)
                            - displayBuySlippage(toBigInt(q.feeAmount),
                                  toBigInt(q.sellAmount), toBigInt(q.buyAmount))
                      /\ summaryShown' = TRUE
                      /\ pc' = cowAfterSummary(args.execute)
                      /\ err' = err
    /\ UNCHANGED << variant, args, tokenIn, tokenOut, chain, wrap, keyLoaded,
                    txs, sims, order, poll, rv >>

\* lines 1037-1052: the agent key and config.contracts.ZodiacHelpers
CowLoadKey ==
    /\ variant = "cow" /\ pc = "key"
    /\ \E exists \in BOOLEAN, helpersConfigured \in BOOLEAN :
         IF ~exists THEN Fail("nokey") /\ keyLoaded' = keyLoaded
         ELSE /\ keyLoaded' = TRUE
              /\ IF helpersConfigured THEN pc' = "submit" /\ err' = err
                 ELSE Fail("config")
    /\ UNCHANGED << variant, args, tokenIn, tokenOut, chain, quote, minAmountOut,
                    wrap, summaryShown, txs, http, sims, order, poll, rv >>

\* order identifiers the auction service may answer with
OrderUids == {"0xuidA", "0xuidB"}

\* fault: a failed PUT app_data ends the run
CowSubmitOrderPutFatal ==
    /\ variant = "cow" /\ pc = "submit"
    /\ IF toBigInt(quote.buyAmount) = 0
       THEN Fail("divzero") /\ UNCHANGED << http, order >>
       ELSE \E registered \in BOOLEAN, ok \in BOOLEAN, uid \in OrderUids :
              LET doc == cowOrder(quote, SAFE_ADDRESS, args.timeout, 0)
              IN  IF ~registered
                  THEN /\ http' = Append(http, "PUT app_data failed")
                       /\ Fail("appdata") /\ order' = order
                  ELSE /\ http' = http \o << "PUT app_data", "POST orders" >>
                       /\ IF ok
                          THEN /\ order' = [posted |-> TRUE, uid |-> uid, doc |-> doc]
                               /\ pc' = "build" /\ err' = err
                          ELSE Fail("order") /\ order' = order
    /\ UNCHANGED << variant, args, tokenIn, tokenOut, chain, quote, minAmountOut,
                    wrap, keyLoaded, summaryShown, txs, sims, poll, rv >>

\* lines 1054-1064 with submitCowOrder (678-733): PUT app_data (its failure is
\* dropped), then POST orders
CowSubmitOrder ==
    /\ variant = "cow" /\ pc = "submit"
    /\ IF toBigInt(quote.buyAmount) = 0
       THEN Fail("divzero") /\ UNCHANGED << http, order >>
       ELSE \E registered \in BOOLEAN, ok \in BOOLEAN, uid \in OrderUids :
              LET doc == cowOrder(quote, SAFE_ADDRESS, args.timeout, 0)
              IN  /\ http' = http \o << IF registered THEN "PUT app_data"
                                        ELSE "PUT app_data failed",
                                        "POST orders" >>
                  /\ IF ok
                     THEN /\ order' = [posted |-> TRUE, uid |-> uid, doc |-> doc]
                          /\ pc' = "build" /\ err' = err
                     ELSE Fail("order") /\ order' = order
    /\ UNCHANGED << variant, args, tokenIn, tokenOut, chain, quote, minAmountOut,
                    wrap, keyLoaded, summaryShown, txs, sims, poll, rv >>

\* fault: the whole amountIn is wrapped
cowWrapTxWhole ==
    RoleTx("wrap", ZodiacHelpers, 0, 1, [amount |-> args.amountIn])

\* WETH balance of the Safe once wrapETH(amount) of the helper contract is
\* confirmed
wethAfterWrap(wethBalance, amount) == wethBalance + amount

\* line 1080-1081: wrapETH(wrapAmount) through ZodiacHelpers
cowWrapTx ==
    RoleTx("wrap", ZodiacHelpers, 0, 1, [amount |-> wrap.wrapAmount])

\* lines 1101-1105: cowPreSign(orderStruct, orderUid) through ZodiacHelpers
cowPresignTx ==
    RoleTx("presign", ZodiacHelpers, 0, 1,
           [order |-> orderStruct(order.doc, SAFE_ADDRESS), orderUid |-> order.uid])

\* lines 1073-1105: the operations are encoded before any of them is sent
CowBuildOps ==
    /\ variant = "cow" /\ pc = "build"
    /\ IF encodable(orderStruct(order.doc, SAFE_ADDRESS))
       THEN pc' = (IF wrap.wrapAmount > 0 THEN "wrap" ELSE "presign") /\ err' = err
       ELSE Fail("encode")
    /\ UNCHANGED << variant, args, tokenIn, tokenOut, chain, quote, minAmountOut,
                    wrap, keyLoaded, summaryShown, txs, http, sims, order, poll, rv >>

\* lines 1108-1118, first operation when ETH has to be wrapped
CowWrap ==
    /\ variant = "cow" /\ pc = "wrap"
    /\ \E sent \in BOOLEAN :
         IF sent
         THEN txs' = Append(txs, cowWrapTx) /\ pc' = "wrap_wait" /\ err' = err
         ELSE Fail("send") /\ txs' = txs
    /\ UNCHANGED << variant, args, tokenIn, tokenOut, chain, quote, minAmountOut,
                    wrap, keyLoaded, summaryShown, http, sims, order, poll, rv >>

\* fault: the receipt of the wrap is not tested
CowWrapWaitNoTest ==
    /\ variant = "cow" /\ pc = "wrap_wait"
    /\ \E st \in {"success", "reverted"} :
         /\ txs' = setLastStatus(st)
         /\ pc' = "presign" /\ err' = err
    /\ UNCHANGED << variant, args, tokenIn, tokenOut, chain, quote, minAmountOut,
                    wrap, keyLoaded, summaryShown, http, sims, order, poll, rv >>

\* lines 1120-1124
CowWrapWait ==
    /\ variant = "cow" /\ pc = "wrap_wait"
    /\ \E st \in {"success", "reverted"} :
         /\ txs' = setLastStatus(st)
         /\ IF st = "success" THEN pc' = "presign" /\ err' = err
            ELSE Fail("execution")
    /\ UNCHANGED << variant, args, tokenIn, tokenOut, chain, quote, minAmountOut,
                    wrap, keyLoaded, summaryShown, http, sims, order, poll, rv >>

\* lines 1108-1118, the presign operation
CowPresign ==
    /\ variant = "cow" /\ pc = "presign"
    /\ \E sent \in BOOLEAN :
         IF sent
         THEN txs' = Append(txs, cowPresignTx) /\ pc' = "presign_wait" /\ err' = err
         ELSE Fail("send") /\ txs' = txs
    /\ UNCHANGED << variant, args, tokenIn, tokenOut, chain, quote, minAmountOut,
                    wrap, keyLoaded, summaryShown, http, sims, order, poll, rv >>

\* lines 1120-1134: the receipt, then pollOrderStatus starts (line 751)
CowPresignWait ==
    /\ variant = "cow" /\ pc = "presign_wait"
    /\ \E st \in {"success", "reverted"} :
         /\ txs' = setLastStatus(st)
         /\ IF st = "success"
            THEN /\ pc' = "poll" /\ err' = err
                 /\ poll' = [poll EXCEPT !.started = TRUE, !.startTime = poll.now]
            ELSE Fail("execution") /\ poll' = poll
    /\ UNCHANGED << variant, args, tokenIn, tokenOut, chain, quote, minAmountOut,
                    wrap, keyLoaded, summaryShown, http, sims, order, rv >>

\* line 752
pollInterval == 5000
\* a status request takes 0 or QueryLatency milliseconds
QueryLatency == 3000

OrderStatuses == {"presignaturePending", "open", "fulfilled", "expired", "cancelled"}
FinalStatuses == {"fulfilled", "expired", "cancelled"}

\* fault: a cancelled order is not taken as final
afterAnswerCancelledOpen(answer) ==
    IF answer = "fulfilled" \/ answer = "expired" THEN "polled" ELSE "sleep"

\* fault: an answer whose response.ok is false ends the loop
afterAnswerErrorEnds(answer) ==
    IF answer = "fulfilled" \/ answer = "expired" \/ answer = "cancelled"
          \/ answer = "http error"
    THEN "polled" ELSE "sleep"

\* lines 761-774: a final status returns, any other answer waits
afterAnswer(answer) ==
    IF answer = "fulfilled" \/ answer = "expired" \/ answer = "cancelled"
    THEN "polled" ELSE "sleep"

\* pollOrderStatus lines 754-772: the loop test, one status request and the
\* test of its answer ("http error" is an answer whose response.ok is false)
PollQuery ==
    /\ variant = "cow" /\ pc = "poll"
    /\ IF poll.now - poll.startTime < args.timeout * 1000
       THEN \E latency \in {0, QueryLatency}, answer \in OrderStatuses \cup {"http error"} :
              /\ poll' = [poll EXCEPT !.now = @ + latency,
                                      !.askedAt = poll.now - poll.startTime,
                                      !.log = Append(@, answer),
                                      !.result = IF answer \in FinalStatuses
                                                 THEN answer ELSE @]
              /\ pc' = afterAnswer(answer)
       ELSE /\ poll' = [poll EXCEPT !.result = "timeout"]
            /\ pc' = "polled"
    /\ UNCHANGED << variant, args, err, tokenIn, tokenOut, chain, quote, minAmountOut,
                    wrap, keyLoaded, summaryShown, txs, http, sims, order, rv >>

\* fault: the wait is taken twice
PollSleepTwice ==
    /\ variant = "cow" /\ pc = "sleep"
    /\ poll' = [poll EXCEPT !.now = @ + 2 * pollInterval, !.waits = @ + 2]
    /\ pc' = "poll"
    /\ UNCHANGED << variant, args, err, tokenIn, tokenOut, chain, quote, minAmountOut,
                    wrap, keyLoaded, summaryShown, txs, http, sims, order, rv >>

\* fault: the wait is half the polling interval
PollSleepShort ==
    /\ variant = "cow" /\ pc = "sleep"
    /\ poll' = [poll EXCEPT !.now = @ + pollInterval \div 2, !.waits = @ + 1]
    /\ pc' = "poll"
    /\ UNCHANGED << variant, args, err, tokenIn, tokenOut, chain, quote, minAmountOut,
                    wrap, keyLoaded, summaryShown, txs, http, sims, order, rv >>

\* pollOrderStatus line 774: the wait between two requests
PollSleep ==
    /\ variant = "cow" /\ pc = "sleep"
    /\ poll' = [poll EXCEPT !.now = @ + pollInterval, !.waits = @ + 1]
    /\ pc' = "poll"
    /\ UNCHANGED << variant, args, err, tokenIn, tokenOut, chain, quote, minAmountOut,
                    wrap, keyLoaded, summaryShown, txs, http, sims, order, rv >>

\* fault: a timed-out order is cancelled at the order API
CowResultCancels ==
    /\ variant = "cow" /\ pc = "polled"
    /\ IF poll.result = "fulfilled" THEN pc' = "done" /\ err' = err
       ELSE Fail(poll.result)
    /\ http' = IF poll.result = "timeout" THEN Append(http, "DELETE orders") ELSE http
    /\ UNCHANGED << variant, args, tokenIn, tokenOut, chain, quote, minAmountOut,
                    wrap, keyLoaded, summaryShown, txs, sims, order, poll, rv >>

\* lines 1136-1163: the switch on the result
CowResult ==
    /\ variant = "cow" /\ pc = "polled"
    /\ IF poll.result = "fulfilled" THEN pc' = "done" /\ err' = err
       ELSE Fail(poll.result)
    /\ UNCHANGED << variant, args, tokenIn, tokenOut, chain, quote, minAmountOut,
                    wrap, keyLoaded, summaryShown, txs, http, sims, order, poll, rv >>

Next ==
    \/ BasicResolve
    \/ BasicCheckBalance
    \/ BasicGetQuote
    \/ BasicLoadKey
    \/ BasicApprove
    \/ BasicApproveWait
    \/ BasicSwap
    \/ BasicSwapWait
    \/ HardenedStart
    \/ HardenedResolve
    \/ HardenedCheckBalance
    \/ HardenedGetQuote
    \/ HardenedValidate
    \/ HardenedLoadKey
    \/ HardenedApprove
    \/ HardenedApproveWait
    \/ HardenedSimulate
    \/ HardenedSwap
    \/ HardenedSwapWait
    \/ HardenedRevoke
    \/ HardenedRevokeWait
    \/ CowResolve
    \/ CowCheckBalance
    \/ CowGetQuote
    \/ CowLoadKey
    \/ CowSubmitOrder
    \/ CowBuildOps
    \/ CowWrap
    \/ CowWrapWait
    \/ CowPresign
    \/ CowPresignWait
    \/ PollQuery
    \/ PollSleep
    \/ CowResult

Spec == Init /\ [][Next]_vars

-----------------------------------------------------------------------------
(* Token resolution on its own: one call of resolveToken per behaviour     *)

lower(s) ==
    [i \in DOMAIN s |->
        IF \E j \in DOMAIN upperLetters : upperLetters[j] = s[i]
        THEN lowerLetters[CHOOSE j \in DOMAIN upperLetters : upperLetters[j] = s[i]]
        ELSE s[i]]

PinnedAddresses ==
    { WETH_ADDRESS, USDC_ADDRESS, USDT_ADDRESS, DAI_ADDRESS, USDS_ADDRESS,
      AERO_ADDRESS, CBBTC_ADDRESS, VIRTUAL_ADDRESS, DEGEN_ADDRESS, BRETT_ADDRESS,
      TOSHI_ADDRESS, WELL_ADDRESS, BID_ADDRESS }

ResolveSymbols ==
    { sETH, sWETH, sUSDC, sUSDT, sDAI, sUSDS, sAERO, scbBTC, sCBBTC, sBID, sDEGEN,
      sETHEREUM, sETHER, sTETHER, sUSD_COIN, sCBBTCTOKEN,
      lower(sETH), lower(sUSDC), lower(sCBBTC), lower(sETHEREUM),
      << "$" >> \o sETH, << " ", "$" >> \o sETH \o << " " >>, << "F","O","O" >> }

ResolveRefs ==
    { SymRef(t) : t \in ResolveSymbols }
    \cup { AddrRef(a) : a \in PinnedAddresses \cup {NATIVE_ETH, OTHER_ADDRESS} }

\* what symbol() of the unlisted contract answers
ImpersonatedSymbols ==
    { sUSDC, lower(sUSDC), sWETH, scbBTC, sCBBTC, lower(sCBBTC), sBID,
      << "F","O","O" >>, NoSymbol }

InitResolve ==
    /\ variant = "" /\ args = << >> /\ pc = "resolveToken" /\ err = ""
    /\ tokenIn = NoToken /\ tokenOut = NoToken /\ chain = NoChain
    /\ quote = NoQuote /\ minAmountOut = 0 /\ wrap = NoWrap
    /\ keyLoaded = FALSE /\ summaryShown = FALSE
    /\ txs = << >> /\ http = << >> /\ sims = << >>
    /\ order = NoOrder /\ poll = NoPoll
    /\ rv \in [variant : {"basic", "hardened"}, ref : ResolveRefs,
               sym : ImpersonatedSymbols, out : {NoToken}, done : {FALSE}]

CallResolveToken ==
    /\ ~rv.done
    /\ rv' = [rv EXCEPT !.out = resolve(rv.variant, rv.ref, rv.sym), !.done = TRUE]
    /\ UNCHANGED flowVars

SpecResolve == InitResolve /\ [][CallResolveToken]_vars


-----------------------------------------------------------------------------
(* maybeApprove on its own: repeated calls against one on-chain allowance  *)

\* how many times maybeApprove is called in a behaviour
MaxCalls == 3

\* the allowance read after approveForRouter(token, MaxUint256): above every
\* amount of the model
UnlimitedAllowance == MaxAmount + MaxBalance + 1

\* allowance of (Safe, router) once approveForRouter(token, amount) of the
\* helper contract is confirmed
allowanceAfter(payload) ==
    IF payload.unlimited THEN UnlimitedAllowance ELSE payload.amount

InitAllowance ==
    /\ variant = "hardened"
    /\ args \in { a \in ArgsOf("hardened") :
                     /\ a.execute /\ a.simulate /\ ~a.revokeAfter
                     /\ a.to = SymRef(sDAI) /\ a.slippage = SlippageUnit \div 20
                     /\ a.from \in {SymRef(sETH), SymRef(sWETH), SymRef(sDAI)} }
    /\ tokenIn = registryResolveToken(args.from, NoSymbol)
    /\ tokenOut = registryResolveToken(args.to, NoSymbol)
    /\ pc = "approve" /\ err = "" /\ chain = NoChain
    /\ quote = NoQuote /\ minAmountOut = 0 /\ wrap = NoWrap
    /\ keyLoaded = TRUE /\ summaryShown = TRUE
    /\ txs = << >> /\ http = << >> /\ sims = << >>
    /\ order = NoOrder /\ poll = NoPoll
    /\ rv \in [calls : {1}, allowance : 0..MaxBalance]

\* one call of maybeApprove (lines 350-381), reading the on-chain allowance
AllowanceCall ==
    /\ pc = "approve"
    /\ IF tokenIn.native
       THEN pc' = "simulate" /\ err' = err /\ UNCHANGED << chain, txs >>
       ELSE \E sent \in BOOLEAN : maybeApproveToken(rv.allowance, sent)
    /\ UNCHANGED << variant, args, tokenIn, tokenOut, quote, minAmountOut, wrap,
                    keyLoaded, summaryShown, http, sims, order, poll, rv >>

\* line 382: tx.wait(); a confirmed approval sets the allowance
AllowanceWait ==
    /\ pc = "approve_wait"
    /\ \E st \in {"success", "reverted"} :
         /\ txs' = setLastStatus(st)
         /\ IF st = "success"
            THEN /\ pc' = "simulate" /\ err' = err
                 /\ rv' = [rv EXCEPT !.allowance = allowanceAfter(lastTx.payload)]
            ELSE Fail("execution") /\ rv' = rv
    /\ UNCHANGED << variant, args, tokenIn, tokenOut, chain, quote, minAmountOut,
                    wrap, keyLoaded, summaryShown, http, sims, order, poll >>

\* the call is repeated with the same token, amount and mode
AllowanceAgain ==
    /\ pc = "simulate" /\ rv.calls < MaxCalls
    /\ pc' = "approve"
    /\ rv' = [rv EXCEPT !.calls = @ + 1]
    /\ UNCHANGED << variant, args, err, tokenIn, tokenOut, chain, quote, minAmountOut,
                    wrap, keyLoaded, summaryShown, txs, http, sims, order, poll >>

NextAllowance == AllowanceCall \/ AllowanceWait \/ AllowanceAgain

SpecAllowance == InitAllowance /\ [][NextAllowance]_vars

-----------------------------------------------------------------------------
(* The minimum output on its own: parseSlippageBps, then line 461          *)

\* --slippage values, in units of 1/SlippageUnit
SlippageInputs ==
    { NotANumber, -1, 0, 1, 4, 5, 15, 25, 500, 5000, 49995, SlippageUnit \div 2,
      SlippageUnit \div 2 + 1, SlippageUnit }

\* amountOut of a quote
AmountOutInputs == { 0, 1, 3, 199, 10000, 12345 }

InitMinOut ==
    /\ variant = "" /\ args = << >> /\ pc = "minAmountOut" /\ err = ""
    /\ tokenIn = NoToken /\ tokenOut = NoToken /\ chain = NoChain
    /\ quote = NoQuote /\ minAmountOut = 0 /\ wrap = NoWrap
    /\ keyLoaded = FALSE /\ summaryShown = FALSE
    /\ txs = << >> /\ http = << >> /\ sims = << >>
    /\ order = NoOrder /\ poll = NoPoll
    /\ rv \in [slippage : SlippageInputs, amountOut : AmountOutInputs,
               quoted : {0, 1, 7}, done : {FALSE}, ok : {FALSE}, error : {""},
               bps : {0}, minAmountOut : {-1}]

\* line 428 and line 461 on the inputs of rv; quoted is quote.minAmountOut
\* (0: the answer has none)
CallMinAmountOut ==
    /\ ~rv.done
    /\ LET parsed == parseSlippageBps(rv.slippage)
       IN  rv' = IF parsed.ok
                 THEN [rv EXCEPT !.done = TRUE, !.ok = TRUE, !.bps = parsed.bps,
                          !.minAmountOut = hardenedMinAmountOut(
                              [amountOut |-> rv.amountOut, minAmountOut |-> rv.quoted],
                              parsed.bps)]
                 ELSE [rv EXCEPT !.done = TRUE, !.error = parsed.error]
    /\ UNCHANGED flowVars

SpecMinOut == InitMinOut /\ [][CallMinAmountOut]_vars

-----------------------------------------------------------------------------
(* The minimum output of the direct venue, from the answer of the service  *)

\* data.minAmountOut of an answer: absent, or a decimal string
NoField == [present |-> FALSE, text |-> << >>]
Field(text) == [present |-> TRUE, text |-> text]
SuppliedInputs == { NoField, Field(<< "0" >>), Field(<< "1" >>), Field(<< "7" >>),
                    Field(<< "9","5","0","0" >>) }

\* line 330: data.minAmountOut ? BigInt(data.minAmountOut) : null.  A string
\* that is not empty is truthy, "0" included; null is carried as 0, which
\* line 461 takes the same way (null and 0n are both falsy)
quoteMinAmountOut(field) == IF field.present THEN toBigInt(field.text) ELSE 0

InitDirectMin ==
    /\ variant = "" /\ args = << >> /\ pc = "getQuote" /\ err = ""
    /\ tokenIn = NoToken /\ tokenOut = NoToken /\ chain = NoChain
    /\ quote = NoQuote /\ minAmountOut = 0 /\ wrap = NoWrap
    /\ keyLoaded = FALSE /\ summaryShown = FALSE
    /\ txs = << >> /\ http = << >> /\ sims = << >>
    /\ order = NoOrder /\ poll = NoPoll
    /\ rv \in [slippage : SlippageInputs, amountOut : AmountOutInputs,
               supplied : SuppliedInputs, done : {FALSE}, ok : {FALSE},
               bps : {0}, minAmountOut : {-1}]

\* line 428, getQuote's return value (lines 328-333) and line 461
CallDirectMin ==
    /\ ~rv.done
    /\ LET parsed == parseSlippageBps(rv.slippage)
           q == [amountOut |-> rv.amountOut,
                 minAmountOut |-> quoteMinAmountOut(rv.supplied)]
       IN  rv' = IF parsed.ok
                 THEN [rv EXCEPT !.done = TRUE, !.ok = TRUE, !.bps = parsed.bps,
                          !.minAmountOut = hardenedMinAmountOut(q, parsed.bps)]
                 ELSE [rv EXCEPT !.done = TRUE]
    /\ UNCHANGED flowVars

SpecDirectMin == InitDirectMin /\ [][CallDirectMin]_vars

-----------------------------------------------------------------------------
(* The buy-amount reduction of the CoW flow on its own                     *)

FeeInputs == { 0, 1, 3, 777 }
SellInputs == { 0, 1, 200, 1000, 12345 }
BuyInputs == { 0, 1, 999, 1000, 54321 }

InitReduction ==
    /\ variant = "" /\ args = << >> /\ pc = "buySlippage" /\ err = ""
    /\ tokenIn = NoToken /\ tokenOut = NoToken /\ chain = NoChain
    /\ quote = NoQuote /\ minAmountOut = 0 /\ wrap = NoWrap
    /\ keyLoaded = FALSE /\ summaryShown = FALSE
    /\ txs = << >> /\ http = << >> /\ sims = << >>
    /\ order = NoOrder /\ poll = NoPoll
    /\ rv \in [feeAmount : FeeInputs, sellAmount : SellInputs, buyAmount : BuyInputs,
               done : {FALSE}, buySlippage : {-1}, displayBuySlippage : {-1}]

\* lines 687-693 and lines 1008-1013 on the amounts of rv, read from their
\* decimal strings as the code reads q.feeAmount, q.sellAmount, q.buyAmount
CallBuySlippage ==
    /\ ~rv.done
    /\ LET fee == toBigInt(bigToString(rv.feeAmount))
           sell == toBigInt(bigToString(rv.sellAmount))
           buy == toBigInt(bigToString(rv.buyAmount))
       IN  rv' = [rv EXCEPT !.done = TRUE,
                            !.buySlippage = cowBuySlippage(fee, sell, buy),
                            !.displayBuySlippage = displayBuySlippage(fee, sell, buy)]
    /\ UNCHANGED flowVars

SpecReduction == InitReduction /\ [][CallBuySlippage]_vars

-----------------------------------------------------------------------------
(* pollOrderStatus on its own: a run that has just presigned its order, with *)
(* every status request answered and every wait ending                       *)

InitPoll ==
    /\ variant = "cow"
    /\ args \in { a \in ArgsOf("cow") :
                     /\ a.execute /\ a.from = SymRef(sDAI) /\ a.to = SymRef(sETH)
                     /\ a.amountIn = 1 }
    /\ pc = "poll" /\ err = ""
    /\ tokenIn = substituteWeth(libResolveToken(args.from, NoSymbol))
    /\ tokenOut = substituteWeth(libResolveToken(args.to, NoSymbol))
    /\ chain = [NoChain EXCEPT !.balance = MaxBalance]
    /\ quote = CowAnswer(MaxAmount, MaxQuote, 0, SAFE_ADDRESS, "sell", FALSE, NULL, NULL)
    /\ minAmountOut = MaxQuote
    /\ wrap = [NoWrap EXCEPT !.ethSubstituted = TRUE]
    /\ keyLoaded = TRUE /\ summaryShown = TRUE
    /\ http = << "POST quote", "PUT app_data", "POST orders" >>
    /\ sims = << >>
    /\ order \in { [posted |-> TRUE, uid |-> uid,
                     doc |-> cowOrder(quote, SAFE_ADDRESS, args.timeout, 0)] :
                       uid \in OrderUids }
    /\ txs = << [cowPresignTx EXCEPT !.status = "success"] >>
    /\ poll = [NoPoll EXCEPT !.started = TRUE]
    /\ rv = NoRv

NextPoll == PollQuery \/ PollSleep \/ CowResult

\* every status request returns (PollQuery) and the clock advances (PollSleep)
SpecPoll ==
    /\ InitPoll /\ [][NextPoll]_vars
    /\ WF_vars(PollQuery) /\ WF_vars(PollSleep) /\ WF_vars(CowResult)

-----------------------------------------------------------------------------
(* Properties                                                              *)

sent(kind) == \E i \in DOMAIN txs : txs[i].kind = kind
confirmed(kind) == \E i \in DOMAIN txs : txs[i].kind = kind /\ txs[i].status = "success"
asked(request) == \E i \in DOMAIN http : http[i] = request

\* C1: every swap transaction and every posted or presigned order names the
\* Safe as recipient; a quote whose order would name another receiver is
\* rejected, with no order posted and nothing presigned.
C1_RecipientIsSafe ==
    /\ \A i \in DOMAIN txs :
         /\ (variant = "basic" /\ txs[i].kind = "swap")
               => txs[i].payload.recipient = SAFE_ADDRESS
         /\ txs[i].kind = "presign" => txs[i].payload.order.receiver = SAFE_ADDRESS
    /\ (variant = "cow" /\ order.posted) => order.doc.receiver = SAFE_ADDRESS
    /\ (variant = "cow" /\ quote.got /\ orElse(quote.receiver, SAFE_ADDRESS) # SAFE_ADDRESS)
          => (~order.posted /\ ~asked("POST orders") /\ ~sent("presign"))

\* C2: resolveToken of a protected symbol succeeds with the pinned address and
\* verified = true, and resolveToken of a pinned address returns verified = true.
ProtectedOf(v) == IF v = "basic" THEN PROTECTED_SYMBOLS ELSE REGISTRY_PROTECTED_SYMBOLS
pinnedOf(v) ==
    IF v = "basic" THEN VERIFIED_TOKENS
    ELSE { << p[1], p[2][1] >> : p \in TOKEN_REGISTRY }
C2_ProtectedResolvesPinned ==
    rv.done =>
      /\ (~rv.ref.isAddress /\ rv.ref.text \in ProtectedOf(rv.variant))
            => /\ rv.out.ok /\ rv.out.verified
               /\ \E p \in pinnedOf(rv.variant) :
                     /\ toUpperCase(p[1]) = toUpperCase(rv.ref.text)
                     /\ rv.out.address = p[2]
      /\ (rv.ref.isAddress /\ \E p \in pinnedOf(rv.variant) : p[2] = rv.ref.address)
            => (rv.out.ok /\ rv.out.verified)

\* C3: resolveByAddress of an address that is not pinned, whose on-chain symbol
\* is a protected symbol in any letter case, returns verified = false with a
\* warning and does not throw.
C3_ImpersonatorWarned ==
    (/\ rv.done /\ rv.ref.isAddress /\ rv.ref.address = OTHER_ADDRESS
     /\ rv.sym # NoSymbol
     /\ \E P \in ProtectedOf(rv.variant) : toUpperCase(rv.sym) = toUpperCase(P))
       => (rv.out.ok /\ ~rv.out.verified /\ rv.out.warning # "")

\* C4: a quote with a non-zero ETH value for a token input, or with an ETH
\* value above amountIn for a native input, is rejected by the validation, and
\* after it no approval, simulation or swap is sent.
unsafeValue ==
    /\ variant = "hardened" /\ quote.got
    /\ \/ ~tokenIn.native /\ quote.value # 0
       \/ tokenIn.native /\ quote.value > args.amountIn
C4_UnsafeValueRejected ==
    unsafeValue =>
      /\ pc \in {"validate", "failed"}
      /\ txs = << >> /\ sims = << >> /\ ~keyLoaded /\ ~summaryShown
C4_Witness ==
    /\ unsafeValue /\ pc = "failed" /\ ~tokenIn.native
    /\ err = "Unsafe quote: ERC20-in swap returned non-zero ETH value"

\* C5: every transaction the agent key signs is execTransactionWithRole on the
\* Roles contract, with the role key and an explicit call kind; the key never
\* calls a token, router or helper contract itself.
C5_OnlyThroughRoles ==
    \A i \in DOMAIN txs :
      /\ txs[i].on = ROLES_ADDRESS
      /\ txs[i].via = "execTransactionWithRole"
      /\ txs[i].roleKey = ROLE_KEY
      /\ txs[i].operation \in {0, 1}
C5_Witness ==
    /\ variant = "basic" /\ Len(txs) = 2
    /\ txs[1].kind = "approve" /\ txs[2].kind = "swap" /\ txs[2].status = "success"

\* C6: when amountIn exceeds the balance the Safe holds of the input token, the
\* run aborts with the insufficient-balance error and the quote service is
\* never called.
balanceRead == chain.balance # -1 \/ chain.weth # -1
availableBalance ==
    IF variant = "cow" /\ tokenIn.native THEN chain.weth + chain.eth
    ELSE IF variant = "cow" /\ tokenIn.address = WETH_ADDRESS /\ chain.weth # -1
    THEN chain.weth
    ELSE chain.balance
C6_BalanceBeforeQuote ==
    (balanceRead /\ args.amountIn > availableBalance)
       => (pc = "failed" /\ err = "insufficient" /\ ~asked("POST quote"))

\* C7: without --execute no transaction is sent or simulated, no order or app
\* data is posted and the agent key is never loaded; the run ends after the
\* summary.
C7_QuoteOnlyNoEffects ==
    (variant # "" /\ ~args.execute) =>
      /\ txs = << >> /\ sims = << >>
      /\ ~order.posted /\ ~asked("POST orders")
      /\ ~asked("PUT app_data") /\ ~asked("PUT app_data failed")
      /\ ~keyLoaded
      /\ pc \in {"start", "resolve", "balance", "quote", "validate", "failed", "done"}
      /\ pc = "done" => summaryShown
C7_Witness ==
    variant = "cow" /\ ~args.execute /\ pc = "done" /\ summaryShown /\ asked("POST quote")

\* C8: the struct given to presign has the sellToken, buyToken, receiver,
\* sellAmount, buyAmount, validTo, appData, kind, partiallyFillable and balance
\* types of the posted order document, and is presigned under the uid the
\* order API returned.
C8_PresignMatchesPosted ==
    \A i \in DOMAIN txs :
      txs[i].kind = "presign" =>
        LET st == txs[i].payload.order
            doc == order.doc
        IN  /\ order.posted
            /\ txs[i].payload.orderUid = order.uid
            /\ st.sellToken = doc.sellToken
            /\ st.buyToken = doc.buyToken
            /\ st.receiver = doc.receiver
            /\ bigToString(st.sellAmount) = doc.sellAmount
            /\ bigToString(st.buyAmount) = doc.buyAmount
            /\ st.validTo = doc.validTo
            /\ st.appData = doc.appData
            /\ \/ doc.kind = "sell" /\ st.kind = KIND_SELL
               \/ doc.kind = "buy" /\ st.kind = KIND_BUY
            /\ st.partiallyFillable = doc.partiallyFillable
            /\ doc.sellTokenBalance = "erc20" /\ st.sellTokenBalance = BALANCE_ERC20
            /\ doc.buyTokenBalance = "erc20" /\ st.buyTokenBalance = BALANCE_ERC20
C8_Witness ==
    /\ confirmed("presign") /\ order.doc.kind = "buy"
    /\ lastTx.payload.order.kind = KIND_BUY

\* C9: an order moves only QUOTED -> SUBMITTED -> PRESIGNED -> one of
\* FULFILLED, EXPIRED, CANCELLED, TIMEOUT; presign is sent only for a returned
\* uid, polling starts only after the presign is confirmed, and after a final
\* state there is no further status request or transaction.
orderState ==
    IF poll.result = "fulfilled" THEN "FULFILLED"
    ELSE IF poll.result = "expired" THEN "EXPIRED"
    ELSE IF poll.result = "cancelled" THEN "CANCELLED"
    ELSE IF poll.result = "timeout" THEN "TIMEOUT"
    ELSE IF confirmed("presign") THEN "PRESIGNED"
    ELSE IF order.posted THEN "SUBMITTED"
    ELSE IF quote.got THEN "QUOTED"
    ELSE "NONE"
FinalStates == {"FULFILLED", "EXPIRED", "CANCELLED", "TIMEOUT"}
LifecycleEdges ==
    { << "NONE", "QUOTED" >>, << "QUOTED", "SUBMITTED" >>, << "SUBMITTED", "PRESIGNED" >> }
    \cup { << "PRESIGNED", f >> : f \in FinalStates }
lifecycleStep ==
    variant = "cow" =>
      /\ orderState' # orderState => << orderState, orderState' >> \in LifecycleEdges
      /\ (Len(txs') > Len(txs) /\ txs'[Len(txs')].kind = "presign")
            => (order.posted /\ txs'[Len(txs')].payload.orderUid = order.uid)
      /\ Len(poll'.log) > Len(poll.log) => orderState = "PRESIGNED"
      /\ orderState \in FinalStates
            => (poll'.log = poll.log /\ txs' = txs /\ http' = http)
C9_OrderLifecycle == [][lifecycleStep]_vars
C9_Witness ==
    /\ variant = "cow" /\ orderState = "CANCELLED" /\ pc = "failed"
    /\ Len(poll.log) = 2

\* C10: when the status requests answer a non-final status k-1 times and
\* fulfilled the k-th time, pollOrderStatus ends FULFILLED after exactly k
\* requests, with exactly one wait of five seconds between two requests.
fulfilledAtLast ==
    /\ variant = "cow" /\ poll.log # << >>
    /\ poll.log[Len(poll.log)] = "fulfilled"
    /\ \A i \in 1..(Len(poll.log) - 1) : poll.log[i] \notin FinalStatuses
C10_FulfilledAfterK ==
    fulfilledAtLast =>
      LET k == Len(poll.log)
          elapsed == poll.now - poll.startTime
      IN  /\ poll.result = "fulfilled"
          /\ pc \in {"polled", "done"}
          /\ poll.waits = k - 1
          /\ elapsed >= (k - 1) * 5000
          /\ elapsed <= (k - 1) * 5000 + k * QueryLatency
C10_Witness ==
    /\ fulfilledAtLast /\ Len(poll.log) = 3 /\ pc = "done"
    /\ poll.log[1] = "presignaturePending" /\ poll.log[2] = "open"

\* C11: when every status request answers open until the timeout has elapsed,
\* pollOrderStatus ends in TIMEOUT, never in FULFILLED, EXPIRED or CANCELLED;
\* after TIMEOUT no transaction and no cancellation is sent: the confirmed
\* presign stays the last transaction and POST orders the last request.
pollEnded == variant = "cow" /\ poll.started /\ pc \in {"polled", "failed", "done"}
allOpen == \A i \in DOMAIN poll.log : poll.log[i] = "open"
C11_OpenUntilTimeout ==
    (pollEnded /\ allOpen) =>
      /\ poll.result = "timeout" /\ orderState = "TIMEOUT"
      /\ pc # "done" /\ (pc = "failed" => err = "timeout")
      /\ poll.now - poll.startTime >= args.timeout * 1000
      /\ lastTx.kind = "presign" /\ lastTx.status = "success"
      /\ http[Len(http)] = "POST orders"
C11_Witness ==
    /\ pollEnded /\ allOpen /\ Len(poll.log) = 3
    /\ poll.result = "timeout" /\ pc = "failed"

\* C13: the approval step sends no approval when the input token is native or
\* the allowance read is at least amountIn, and otherwise exactly one approval,
\* through the helper, for the input token, in exact and in max mode.
approvals == { i \in DOMAIN txs : txs[i].kind = "approve" }
nativeIn == IF variant = "basic" THEN basicIsETH(tokenIn) ELSE tokenIn.native
approvalDone ==
    /\ variant \in {"basic", "hardened"} /\ args.execute
    /\ pc \in {"simulate", "swap", "swap_wait", "revoke", "revoke_wait", "done"}
C15_ApprovalAmountByMode ==
    \A i \in approvals :
      /\ args.approveMode = "exact"
            => (~txs[i].payload.unlimited /\ txs[i].payload.amount = args.amountIn)
      /\ txs[i].payload.unlimited => args.approveMode = "max"

\* C16: once the swap is confirmed, a requested revoke is attempted, and a
\* revoke that fails does not end the run with a failure: the swap is still
\* reported complete.
C16_RevokeFailureNotFatal ==
    (variant = "hardened" /\ confirmed("swap")) =>
      /\ pc # "failed"
      /\ (pc = "done" /\ args.revokeAfter /\ ~tokenIn.native) => sent("revoke")

\* C17: for a slippage s in [0, 0.5] the minimum output is
\* floor(amountOut * (10000 - round(s * 10000)) / 10000) when the quote brings no
\* minimum of its own, and the quote's minimum when it brings one; a slippage
\* outside [0, 0.5], or not finite, is rejected and no minimum is produced.
slippageInRange ==
    rv.slippage # NotANumber /\ rv.slippage >= 0 /\ 2 * rv.slippage <= SlippageUnit
\* b = round(s * 10000), halves rounded up
isRounded(b, s) ==
    /\ 2 * (b * SlippageUnit - s * 10000) <= SlippageUnit
    /\ 2 * (s * 10000 - b * SlippageUnit) < SlippageUnit
\* m = floor(amountOut * (10000 - b) / 10000)
isFloorShare(m, amountOut, b) ==
    /\ m * 10000 <= amountOut * (10000 - b)
    /\ amountOut * (10000 - b) < (m + 1) * 10000
isFloorOf(q, n, d) == q * d <= n /\ n < (q + 1) * d
isReduction(r, fee, sell, buy) ==
    IF sell > 0
    THEN \E a \in 0..(2 * fee), b \in 0..sell :
           /\ isFloorOf(a, 3 * fee, 2)
           /\ isFloorOf(b, 5 * sell, 1000)
           /\ isFloorOf(r, (a + b) * buy, sell)
    ELSE isFloorOf(r, 5 * buy, 1000)
C19_ChainIdBeforeTransactions ==
    /\ (txs # << >> /\ variant # "") => chain.chainId = CHAIN_ID
    /\ (chain.chainId # -1 /\ chain.chainId # CHAIN_ID)
          => (pc = "failed" /\ err = "chain" /\ txs = << >>)

\* C20: preflight comes before any transaction or simulation of the hardened
\* flow and finds bytecode at the Safe, the Roles contract, the router and the
\* helper; when one of them has none the run fails with the missing-bytecode
\* error and nothing is sent.
preflightRan == chain.deployed # {"<not read>"}
C20_BytecodeBeforeTransactions ==
    variant = "hardened" =>
      /\ (txs # << >> \/ sims # << >> \/ pc \notin {"start", "failed"})
            => (preflightRan /\ requiredAddresses \subseteq chain.deployed)
      /\ (preflightRan /\ ~(requiredAddresses \subseteq chain.deployed))
            => (pc = "failed" /\ err = "nocode" /\ txs = << >> /\ sims = << >>
                /\ http = << >> /\ ~keyLoaded)
C20_Witness ==
    /\ variant = "hardened" /\ pc = "failed" /\ err = "nocode"
    /\ chain.deployed = requiredAddresses \ {AeroUniversalRouter}

\* C12: the timeout of pollOrderStatus runs from its own start: no status
\* request is started once the elapsed time has reached the timeout, and the
\* loop never runs longer than the timeout plus one polling interval, whatever
\* the latency of the requests.
C12_TimeoutBoundsLoop ==
    (variant = "cow" /\ poll.started) =>
      /\ poll.askedAt < args.timeout * 1000 \/ poll.askedAt = -1
      /\ poll.now - poll.startTime <= args.timeout * 1000 + 5000

\* C21: state-changing calls are never pipelined: at most one submitted
\* transaction is unconfirmed and it is the last one submitted; the approval a
\* swap relies on is confirmed before the swap is submitted, and a needed wrap
\* is confirmed before the presign is submitted.
unconfirmed == { i \in DOMAIN txs : txs[i].status = "pending" }
txKinds == {"approve", "wrap", "presign", "swap", "revoke"}
C22_RevertEndsRun ==
    /\ \A k \in txKinds :
          Cardinality({ i \in DOMAIN txs : txs[i].kind = k }) <= 1
    /\ \A i \in DOMAIN txs :
          txs[i].status = "reverted" =>
            /\ i = Len(txs)
            /\ pc = "failed"
            /\ txs[i].kind # "revoke" => err = "execution"
C22_Witness ==
    /\ variant = "cow" /\ Len(txs) = 1 /\ txs[1].kind = "wrap"
    /\ txs[1].status = "reverted" /\ pc = "failed" /\ err = "execution"

\* C23: getQuote of either venue fails, and returns no quote, whenever the
\* quote service answers with a non-success HTTP status or with a body that has
\* an error field; after it the run asks for no other quote and sends no
\* transaction, simulation or order.
quoteRefused == variant # "" /\ quote.answer \in {"http error", "error field"}
C23_QuoteFailureEndsRun ==
    quoteRefused =>
      /\ ~quote.got /\ pc = "failed" /\ err = "quote"
      /\ http = << "POST quote" >>
      /\ txs = << >> /\ sims = << >> /\ ~order.posted /\ ~keyLoaded

\* C24: a quote of the direct venue whose calldata is missing, is no string,
\* lacks the 0x prefix or is malformed hex in another way is rejected by the
\* validation: the run fails before the agent key is read, and no approval,
\* simulation or swap is sent for it.
malformedCalldata ==
    variant = "hardened" /\ quote.got /\ ~isBytesLike(quote.calldata)
C24_MalformedCalldataRejected ==
    malformedCalldata =>
      /\ pc \in {"validate", "failed"}
      /\ pc = "failed" => err = "quote.calldata must be valid hex data"
      /\ txs = << >> /\ sims = << >> /\ ~keyLoaded

\* C25: resolveToken returns no descriptor for a symbol that is absent from the
\* registry: it fails with the protected-token error when the normalized symbol
\* is one of the protected symbols and with the token-not-found error when it
\* is not.
normalizedKey(v, text) ==
    IF v = "basic" THEN aliasOf(TOKEN_ALIASES, stripSigil(toUpperCase(trim(text))))
    ELSE aliasOf(REGISTRY_ALIASES, normalizeSymbol(text))
inRegistry(v, key) ==
    IF v = "basic" THEN has(VERIFIED_TOKENS, key) ELSE has(TOKEN_REGISTRY, key)
isProtected(v, key) == \E P \in ProtectedOf(v) : toUpperCase(P) = key
C25_AbsentSymbolFails ==
    (rv.done /\ ~rv.ref.isAddress
       /\ ~inRegistry(rv.variant, normalizedKey(rv.variant, rv.ref.text)))
      => /\ ~rv.out.ok
         /\ rv.out.error =
               IF isProtected(rv.variant, normalizedKey(rv.variant, rv.ref.text))
               THEN "protected" ELSE "notfound"

\* C26: the registration of the application metadata is best-effort: when the
\* PUT /app_data request fails the run does not fail for it, the order is
\* posted right after with the same metadata hash, and the flow goes on to
\* presign and polling.
putFailed == variant = "cow" /\ asked("PUT app_data failed")
expectedAppData ==
    LET buy == toBigInt(quote.buyAmount)
        reduction == cowBuySlippage(toBigInt(quote.feeAmount),
                                    toBigInt(quote.sellAmount), buy)
    IN  appDataHash(bigDiv(reduction * 10000, buy))
C26_AppDataBestEffort ==
    putFailed =>
      /\ \E i \in DOMAIN http :
            /\ http[i] = "PUT app_data failed"
            /\ i < Len(http) /\ http[i + 1] = "POST orders"
      /\ err # "appdata"
      /\ order.posted => order.doc.appData = expectedAppData
      /\ (pc = "failed" /\ ~order.posted) => err = "order"
C26_Witness ==
    /\ putFailed /\ order.posted /\ confirmed("presign")
    /\ poll.result = "fulfilled" /\ pc = "done"

\* C27: with simulation enabled, a read-only call with the target, native
\* value, calldata, call kind and role key of the real swap is made through the
\* role entry point before the swap is submitted; when the simulated call
\* reverts the run fails and the swap is never submitted.
sameCall(a, b) ==
    /\ a.on = b.on /\ a.via = b.via /\ a.to = b.to /\ a.value = b.value
    /\ a.payload = b.payload /\ a.operation = b.operation /\ a.roleKey = b.roleKey
nonFinal == { i \in DOMAIN poll.log : poll.log[i] \notin FinalStatuses }
pollReturned == variant = "cow" /\ poll.started /\ pc \in {"polled", "done", "failed"}
C28_PollResults ==
    (variant = "cow" /\ poll.started) =>
      /\ \A i \in DOMAIN poll.log : i < Len(poll.log) => i \in nonFinal
      /\ pollReturned =>
            /\ poll.result \in FinalStatuses \cup {"timeout"}
            /\ poll.result \in FinalStatuses
                  <=> (poll.log # << >> /\ Len(poll.log) \notin nonFinal)
            /\ poll.result \in FinalStatuses => poll.result = poll.log[Len(poll.log)]
            /\ poll.waits = Cardinality(nonFinal)
      /\ pc = "poll" => (poll.result = "" /\ poll.waits = Len(poll.log))
      /\ pc = "sleep" =>
            /\ poll.result = "" /\ Len(poll.log) \in nonFinal
            /\ poll.waits = Len(poll.log) - 1
C28_Witness ==
    /\ pollReturned /\ poll.result = "expired" /\ poll.waits = 2
    /\ poll.log = << "http error", "presignaturePending", "expired" >>

\* C29: every transaction of a flow attaches zero native value, except the swap
\* of a request whose input is the native asset, which attaches at most
\* amountIn; approval, revoke, wrap and presign always attach zero.
\* the request names the native asset (ETH), not a token contract
nativeRequested ==
    IF variant = "basic" THEN args.from = SymRef(sETH) ELSE tokenIn.native
C29_NativeValue ==
    variant # "" =>
      /\ \A i \in DOMAIN txs :
            IF txs[i].kind = "swap" /\ nativeRequested
            THEN txs[i].value >= 0 /\ txs[i].value <= args.amountIn
            ELSE txs[i].value = 0
      /\ \A i \in DOMAIN sims :
            IF nativeRequested
            THEN sims[i].value >= 0 /\ sims[i].value <= args.amountIn
            ELSE sims[i].value = 0

\* C30: in the direct venue the minimum output is the minAmountOut of the
\* service whenever the answer supplies one, and is
\* floor(amountOut * (10000 - bps) / 10000) exactly when it supplies none.
C30_ServiceMinimumWins ==
    (rv.done /\ rv.ok) =>
      IF rv.supplied.present
      THEN bigToString(rv.minAmountOut) = rv.supplied.text
      ELSE isFloorShare(rv.minAmountOut, rv.amountOut, rv.bps)

\* C31: symbol resolution does not depend on letter case, surrounding
\* whitespace, one leading $ or a registered alias: every spelling of the
\* symbol that was resolved gives the same descriptor, or fails with the same
\* error.
sameSymbol(v, a, b) == normalizedKey(v, a) = normalizedKey(v, b)
C31_SpellingsAgree ==
    (rv.done /\ ~rv.ref.isAddress) =>
      \A t \in ResolveSymbols :
        sameSymbol(rv.variant, t, rv.ref.text)
           => resolve(rv.variant, SymRef(t), rv.sym) = rv.out
C31_Witness ==
    /\ rv.done /\ rv.variant = "basic" /\ rv.out.ok
    /\ rv.ref = SymRef(<< " ", "$" >> \o sETH \o << " " >>)
    /\ rv.out = resolve("basic", SymRef(sETHEREUM), rv.sym)
    /\ rv.out = resolve("basic", SymRef(lower(sETH)), rv.sym)

\* C32: when native ETH is sold through the batch-auction venue the wrap amount
\* is 0 if the WETH balance is at least amountIn, and otherwise is
\* amountIn - wethBalance, above 0 and at most the ETH balance; when WETH and
\* ETH together are below amountIn the run aborts before any quote; after a
\* confirmed wrap the WETH balance covers amountIn.
ethSold ==
    /\ variant = "cow" /\ tokenIn.ok /\ tokenIn.native
    /\ chain.weth # -1 /\ chain.eth # -1
C32_WrapAmount ==
    ethSold =>
      /\ chain.weth >= args.amountIn => wrap.wrapAmount = 0
      /\ (chain.weth < args.amountIn /\ chain.weth + chain.eth >= args.amountIn)
            => /\ wrap.wrapAmount = args.amountIn - chain.weth
               /\ wrap.wrapAmount > 0 /\ wrap.wrapAmount <= chain.eth
      /\ chain.weth + chain.eth < args.amountIn
            => /\ pc = "failed" /\ err = "insufficient"
               /\ ~asked("POST quote") /\ wrap.wrapAmount = 0 /\ txs = << >>
      /\ \A i \in DOMAIN txs :
            txs[i].kind = "wrap" =>
              /\ txs[i].payload.amount = wrap.wrapAmount /\ wrap.wrapAmount > 0
              /\ txs[i].status = "success"
                    => wethAfterWrap(chain.weth, txs[i].payload.amount) >= args.amountIn
C32_Witness ==
    /\ ethSold /\ confirmed("wrap") /\ args.amountIn = 2
    /\ chain.weth = 1 /\ chain.eth = 1 /\ wrap.wrapAmount = 1

\* C33: in the batch-auction flow ETH is wrapped, and the ETH balance counted
\* towards the amount to sell, only when the from-token resolved to native ETH;
\* a request whose from-token is WETH or another ERC20 never wraps ETH,
\* whatever its to-token.
C33_WrapOnlyForNativeInput ==
    (variant = "cow" /\ tokenIn.ok /\ ~tokenIn.native) =>
      /\ chain.eth = -1
      /\ wrap.wrapAmount = 0
      /\ ~sent("wrap")

\* C34: for a quote with feeAmount, sellAmount and buyAmount not negative, the
\* buyAmount of the order that submitCowOrder posts is at least 0 and at most
\* the buyAmount of the quote.
postedBuyAmount == toBigInt(bigToString(rv.buyAmount - rv.buySlippage))
C34_PostedBuyAmountInRange ==
    (rv.done /\ rv.feeAmount >= 0 /\ rv.sellAmount >= 0 /\ rv.buyAmount >= 0)
       => (postedBuyAmount >= 0 /\ postedBuyAmount <= rv.buyAmount)

\* C35: the slippage code of the batch-auction flow, in the order construction
\* and in the summary, never divides by zero for a quote whose amounts are not
\* negative, a buyAmount of 0 included: the slippage bips can always be computed.
quoteNotNegative ==
    /\ variant = "cow" /\ quote.got
    /\ toBigInt(quote.feeAmount) >= 0 /\ toBigInt(quote.sellAmount) >= 0
    /\ toBigInt(quote.buyAmount) >= 0
C35_NoDivisionByZero ==
    quoteNotNegative => err # "divzero"

\* C36: the Min receive amount of the batch-auction summary is the buyAmount of
\* the order that is then posted and presigned for the same quote.
C36_MinReceiveIsPostedBuyAmount ==
    variant = "cow" =>
      /\ order.posted => toBigInt(order.doc.buyAmount) = minAmountOut
      /\ \A i \in DOMAIN txs :
            txs[i].kind = "presign" => txs[i].payload.order.buyAmount = minAmountOut
C36_Witness ==
    /\ variant = "cow" /\ confirmed("presign")
    /\ toBigInt(quote.buyAmount) = 1000 * MaxQuote
    /\ minAmountOut < toBigInt(quote.buyAmount) /\ minAmountOut > 0
    /\ lastTx.payload.order.buyAmount = minAmountOut

\* C37: the validity of the order and the polling budget are the same
\* duration: for every timeout T of the caller, T = 0 included, the posted
\* order is valid until its submission time (0 in the model) plus T seconds,
\* and polling gives up only after T seconds.
C37_ValidityIsPollingBudget ==
    (variant = "cow" /\ order.posted) =>
      /\ order.doc.validTo = args.timeout
      /\ poll.result = "timeout" => poll.now - poll.startTime >= args.timeout * 1000

\* C38: for every finite timeout, when the clock advances and every status
\* request returns, pollOrderStatus returns in the end, after at most
\* ceil(timeoutMs / 5000) status requests.
\* ceil(n / d) for d > 0
ceilDiv(n, d) == (n + d - 1) \div d
queriesBounded ==
    (variant = "cow" /\ poll.started)
       => Len(poll.log) <= ceilDiv(args.timeout * 1000, 5000)
C38_PollTerminates ==
    /\ []queriesBounded
    /\ (variant = "cow" /\ poll.started /\ pc \in {"poll", "sleep"})
          ~> (pc \in {"done", "failed"} /\ poll.result # "")
C38_Witness ==
    /\ variant = "cow" /\ args.timeout = 12 /\ Len(poll.log) = 3
    /\ poll.result = "timeout" /\ pc = "failed"

\* C39: in the basic and the hardened flow, for every slippage the flow accepts
\* and every quoted amountOut >= 0, the minimum output satisfies
\* 0 <= minAmountOut <= amountOut, and computing it raises no arithmetic or
\* conversion error.
C39_MinOutInRange ==
    /\ err # "bigint"
    /\ (variant \in {"basic", "hardened"} /\ summaryShown)
          => (0 <= minAmountOut /\ minAmountOut <= quote.amountOut)

====
